---- MODULE Spec2Model ----
(***************************************************************************)
(* A model of the watermarking core of dvw (src/dvw/core): the bit         *)
(* manipulators and emphasis wrappers of methods.py, the Pipe / Every      *)
(* composition of transforms.py with its scratch stack, the frame tunnel   *)
(* of io/video.py and the embedding / extraction orchestrators of core.py. *)
(*                                                                         *)
(* A frame is represented by the list of its selected wavelet subbands,    *)
(* each a Rows x Cols matrix of integers; the arithmetic of the            *)
(* manipulators is exact on them (x >= (a+b)/2 is computed as 2x >= a+b).  *)
(***************************************************************************)
EXTENDS Integers, Sequences, FiniteSets, TLC

VARIABLES
    \* ---- the embedding / extraction run (core.py, io/video.py)
    video,      \* the frames of the input video, in order
    wm,         \* BWImageReader.buffer: the bits of the watermark
    copy,       \* the copy argument of WatermarkEmbedder.embed
    emphasis,   \* "capacity" or "robustness"
    position,   \* WindowPosition: "hr" or "vr"
    pc,         \* where the run is
    rpos,       \* VideoReader position of the tunnel (frames read so far)
    cur,        \* BWImageReader.current
    success,    \* the local of WatermarkEmbedder._embed
    early,      \* the run took the branch of core.py line 94
    stats,      \* WatermarkEmbedder.statistics
    out,        \* the frames written to the tunnel's writer, in order
    handled,    \* number of frames passed through FrameEmbeddingKit.handle
    events,     \* every notify() delivered to the subscribers, in order
    clock,      \* number of time() calls so far
    raised,     \* the exception that left embed() / extract(), or NoExc
    ret,        \* what embed() / extract() returned to the caller
    xstats,     \* the ExtractingStatistics of the extraction run
    xpos,       \* frames of out read by the extraction run's VideoReader
    xsuccess,   \* the local success of _stream2watermark
    written,    \* BWImageWriter.buffer: the bits written by extraction
    xret,       \* what extract() returned to the caller
    ncopied,    \* the local copied of VideoTunnel.copy_frames
    thrown,     \* the exception raised inside _embed / _stream2watermark, or NoExc
    xq,         \* the quantity argument of extract()
    \* ---- a transformation applied to a domain (transforms.py)
    ptree,      \* the Transformation: a tree of Pipe, Every and stages
    pin,        \* the domain given to transform
    pmid,       \* the domain transform returned
    pdom,       \* the current domain
    pmem,       \* the scratch stack ("memory")
    pok,        \* no restore has popped an empty stack or a token of another stage
    pphase,     \* "off", "start", "transformed" or "restored"
    \* ---- a bit manipulator applied to one window (methods.py)
    mwindow,    \* the window, modified in place by embed
    mbit,       \* the bit given to embed
    mout,       \* what extract returned
    mphase,     \* "off", "start", "embedded" or "extracted"
    mkind,      \* the manipulator: "WindowMedian", "EvenOddDifferential" or "MeanOverWindowEdges"
    malpha,     \* the manipulator's alpha (0 for WindowMedian, which has none)
    \* ---- a bit file written by BitFileWriter and read by BitFileReader
    fin,        \* the bits the caller writes
    fmode,      \* "written": the file comes from the writer; "given": any file
    fw,         \* BitFileWriter: buffer, current, and the number of bits written
    ffile,      \* the bytes of the file
    fr,         \* BitFileReader: buffer, eof, current, and the position in the file
    fout,       \* the bits read_bit returned
    favail,     \* what the last available() returned, "none" after a read_bit
    fphase,     \* "off", "write" or "read"
    \* ---- a call of shape2shape (util.py)
    sold,       \* old_shape: <<height, width>>
    snew,       \* new_shape: none, the swap sentinel, or a pair; 0 is an unset entry
    sres,       \* what the call returned
    sphase,     \* "off", "start" or "done"
    \* ---- Algorithm.embed / Algorithm.extract inside the caller's with-scope
    cin,        \* the inputs: the operation, which files can be opened, what raises
    cpc,        \* "off", "start", "construct", "run", "exit", "wmexit", "returned", "raised"
    ch,         \* the handles: watermark, video reader, video writer
    cres,       \* the statistics returned and the exception in flight or raised
    \* ---- the calls an embedding run makes on the watermark reader
    qin,        \* the inputs: Method and its parameters, Emphasis, sizes
    qpc,        \* "off", "entry", "while", "transfer", "method", "sub", "read", "after", "done"
    qst,        \* reader.current, frames read, success, window position, group
    qcalls      \* the calls made on the reader so far, in order

runVars == <<video, wm, copy, emphasis, position, pc, rpos, cur, success, early,
             stats, out, handled, events, clock, raised, ret, xstats, xpos,
             xsuccess, written, xret, ncopied, thrown, xq>>

pipeVars == <<ptree, pin, pmid, pdom, pmem, pok, pphase>>

manipVars == <<mwindow, mbit, mout, mphase, mkind, malpha>>

fileVars == <<fin, fmode, fw, ffile, fr, fout, favail, fphase>>

shapeVars == <<sold, snew, sres, sphase>>

scopeVars == <<cin, cpc, ch, cres>>

callVars == <<qin, qpc, qst, qcalls>>

vars == <<runVars, pipeVars, manipVars, fileVars, shapeVars, scopeVars, callVars>>

\* what the actions of one part leave unchanged
notRun == <<pipeVars, manipVars, fileVars, shapeVars, scopeVars, callVars>>
notPipe == <<runVars, manipVars, fileVars, shapeVars, scopeVars, callVars>>
notManip == <<runVars, pipeVars, fileVars, shapeVars, scopeVars, callVars>>
notFile == <<runVars, pipeVars, manipVars, shapeVars, scopeVars, callVars>>
notShape == <<runVars, pipeVars, manipVars, fileVars, scopeVars, callVars>>
notScope == <<runVars, pipeVars, manipVars, fileVars, shapeVars, callVars>>
notCall == <<runVars, pipeVars, manipVars, fileVars, shapeVars, scopeVars>>

-----------------------------------------------------------------------------
(* Bounds *)
MaxFrames == 2
MaxBits == 3
MaxWidth == 3
MaxReads == 4
MaxRuns == 2
MaxSeq == 4
MaxSize == 6
MaxRows == 2
MaxRepeats == 2
MaxQuantity == 4
MaxList == 2
MaxWindow == 4
MaxVal == 2
MaxAlpha == 2
MaxGroups == 3
MaxFileBits == 9
MaxBytes == 2
MaxDim == 3

(* Program constants *)
WindowSize == 3

NoExc == "none"
Bits == {0, 1}

-----------------------------------------------------------------------------
(* util.py *)

bit2sign(b) == IF b THEN 1 ELSE -1

(* util.py: shape2shape.  new_shape is a record: kind "none" for None (or  *)
(* an empty value), "swap" for -1, "pair" for (height, width), where an    *)
(* entry 0 stands for an unset one (None and 0 are both false for `not`).  *)

NoShape == [kind |-> "none", h |-> 0, w |-> 0]
SwapShape == [kind |-> "swap", h |-> 0, w |-> 0]
PairShape(h, w) == [kind |-> "pair", h |-> h, w |-> w]

\* a plausible slip: the ratio is taken the wrong way round
shape2shapeInverted(old_shape, new_shape) ==
    IF new_shape.kind = "swap" THEN <<old_shape[2], old_shape[1]>>
    ELSE IF new_shape.kind = "none" \/ (new_shape.h = 0 /\ new_shape.w = 0) THEN old_shape
    ELSE IF new_shape.h = 0
    THEN <<(new_shape.w * old_shape[2]) \div old_shape[1], new_shape.w>>
    ELSE IF new_shape.w = 0
    THEN <<new_shape.h, (new_shape.h * old_shape[1]) \div old_shape[2]>>
    ELSE <<new_shape.h, new_shape.w>>

shape2shape(old_shape, new_shape) ==
    IF new_shape.kind = "swap" THEN <<old_shape[2], old_shape[1]>>
    ELSE IF new_shape.kind = "none" \/ (new_shape.h = 0 /\ new_shape.w = 0) THEN old_shape
    ELSE IF new_shape.h = 0
    THEN <<(new_shape.w * old_shape[1]) \div old_shape[2], new_shape.w>>
    ELSE IF new_shape.w = 0
    THEN <<new_shape.h, (new_shape.h * old_shape[2]) \div old_shape[1]>>
    ELSE <<new_shape.h, new_shape.w>>

ShapeIdle == sold = <<1, 1>> /\ snew = NoShape /\ sres = <<1, 1>> /\ sphase = "off"

(* numpy helpers *)
RECURSIVE SeqMin(_)
SeqMin(s) ==
    IF Len(s) = 1 THEN s[1]
    ELSE LET m == SeqMin(Tail(s)) IN IF s[1] <= m THEN s[1] ELSE m

RECURSIVE SeqMax(_)
SeqMax(s) ==
    IF Len(s) = 1 THEN s[1]
    ELSE LET m == SeqMax(Tail(s)) IN IF s[1] >= m THEN s[1] ELSE m

\* ndarray.argmin / argmax: the first index of the extreme value
ArgMin(w) == CHOOSE i \in 1..Len(w) : w[i] = SeqMin(w) /\ \A j \in 1..(i-1) : w[j] # w[i]
ArgMax(w) == CHOOSE i \in 1..Len(w) : w[i] = SeqMax(w) /\ \A j \in 1..(i-1) : w[j] # w[i]

RECURSIVE SumSeq(_)
SumSeq(s) == IF Len(s) = 0 THEN 0 ELSE s[1] + SumSeq(Tail(s))

Min2(a, b) == IF a <= b THEN a ELSE b
Max2(a, b) == IF a >= b THEN a ELSE b

-----------------------------------------------------------------------------
(* methods.py: WindowMedianBitManipulator *)

WindowMedianBitManipulatorEmbed(window, bit) ==
    LET imin == ArgMin(window)
        imax == ArgMax(window)
    IN  [i \in 1..Len(window) |->
            IF i # imin /\ i # imax
            THEN (IF bit # 0 THEN window[imax] ELSE window[imin])
            ELSE window[i]]

WindowMedianBitManipulatorExtract(window) ==
    LET imin == ArgMin(window)
        imax == ArgMax(window)
        votes == [i \in 1..Len(window) |->
                    IF i # imin /\ i # imax
                    THEN bit2sign(2 * window[i] >= window[imin] + window[imax])
                    ELSE 0]
        cnt == SumSeq(votes)
    IN  IF cnt >= 0 THEN 1 ELSE 0

-----------------------------------------------------------------------------
(* methods.py: EvenOddDifferentialBitManipulator and                       *)
(* MeanOverWindowEdgesBitManipulator.  The values are even integers, so    *)
(* that 0.5 * (a + b) is an integer, and alpha is a natural number.        *)

\* EvenOddDifferentialBitManipulator.embed; domain is the pair (even, odd)
EvenOddDifferentialBitManipulatorEmbed(domain, bit, alpha) ==
    LET even == domain[1]
        odd == domain[2]
        sign == bit2sign(bit = 1)
        avg(i) == (even[i] + odd[i]) \div 2
    IN  << [i \in 1..Len(even) |-> avg(i) + sign * alpha],
           [i \in 1..Len(even) |-> avg(i) - sign * alpha] >>

\* EvenOddDifferentialBitManipulator.extract; zip stops at the shorter one
EvenOddDifferentialBitManipulatorExtract(domain) ==
    LET even == domain[1]
        odd == domain[2]
        cnt == SumSeq([i \in 1..Min2(Len(even), Len(odd)) |->
                          bit2sign(even[i] - odd[i] >= 0)])
    IN  IF cnt >= 0 THEN 1 ELSE 0

\* MeanOverWindowEdgesBitManipulator.embed: window[1:-1] = 0.5 * (sm + bit * alpha * sm)
MeanOverWindowEdgesBitManipulatorEmbed(window, bit, alpha) ==
    LET sign == bit2sign(bit = 1)
        sm == window[1] + window[Len(window)]
    IN  [i \in 1..Len(window) |->
            IF i = 1 \/ i = Len(window) THEN window[i]
            ELSE (sm + sign * alpha * sm) \div 2]

\* MeanOverWindowEdgesBitManipulator.extract: for i in range(1, len(window)),
\* window[i] > avg with avg = 0.5 * (window[0] + window[-1])
MeanOverWindowEdgesBitManipulatorExtract(window) ==
    LET cnt == SumSeq([k \in 1..(Len(window) - 1) |->
                          bit2sign(2 * window[k + 1] > window[1] + window[Len(window)])])
    IN  IF cnt >= 0 THEN 1 ELSE 0

-----------------------------------------------------------------------------
(* io/watermark.py: BitFileWriter and BitFileReader.  A writer is the      *)
(* record of its buffer and current (n counts the calls of write_bit), a   *)
(* reader the record of its buffer, eof, current and the position of its   *)
(* file object; the file is the sequence of its bytes.                     *)

RECURSIVE Pow2(_)
Pow2(n) == IF n = 0 THEN 1 ELSE 2 * Pow2(n - 1)

\* a | b on naturals
RECURSIVE BitOr(_, _)
BitOr(a, b) ==
    IF a = 0 THEN b
    ELSE IF b = 0 THEN a
    ELSE 2 * BitOr(a \div 2, b \div 2) + (IF a % 2 = 1 \/ b % 2 = 1 THEN 1 ELSE 0)

\* BitFileWriter.__init__
BitFileWriterInit == [buffer |-> 0, current |-> 0, n |-> 0]

\* BitFileWriter._update: w is the writer, file the bytes written so far
BitFileWriterUpdate(w, file) ==
    IF w.current > 7
    THEN [w |-> [w EXCEPT !.buffer = 0, !.current = 0], file |-> Append(file, w.buffer)]
    ELSE [w |-> w, file |-> file]

\* a plausible slip: the bits are packed from the most significant end
BitFileWriterWriteBitMsb(w, file, bit) ==
    BitFileWriterUpdate([w EXCEPT !.buffer = 2 * @ + bit,
                                  !.current = @ + 1, !.n = @ + 1], file)

\* BitFileWriter.write_bit
BitFileWriterWriteBit(w, file, bit) ==
    BitFileWriterUpdate([w EXCEPT !.buffer = BitOr(@, bit * Pow2(w.current)),
                                  !.current = @ + 1, !.n = @ + 1], file)

\* BitFileReader.__init__
BitFileReaderInit == [buffer |-> 0, eof |-> FALSE, current |-> 256, pos |-> 0]

\* BitFileReader._update: file.read(1) returns no byte at the end of the file
BitFileReaderUpdate(r, file) ==
    IF r.current > 7
    THEN IF r.pos < Len(file)
         THEN [buffer |-> file[r.pos + 1], eof |-> FALSE, current |-> 0, pos |-> r.pos + 1]
         ELSE [buffer |-> 0, eof |-> TRUE, current |-> 0, pos |-> r.pos]
    ELSE r

\* a plausible slip: available() reads a byte on every call
BitFileReaderAvailableReload(r, file) ==
    LET u == BitFileReaderUpdate([r EXCEPT !.current = 8], file)
    IN  [r |-> u, result |-> ~u.eof]

\* BitFileReader.available: the reader after the call and what it returned
BitFileReaderAvailable(r, file) ==
    LET u == BitFileReaderUpdate(r, file)
    IN  [r |-> u, result |-> ~u.eof]

\* a plausible slip: the bits are taken from the most significant end
BitFileReaderReadBitMsb(r, file) ==
    LET u == BitFileReaderUpdate(r, file)
    IN  [r |-> [u EXCEPT !.buffer = (2 * @) % 256, !.current = @ + 1],
         bit |-> u.buffer \div 128]

\* BitFileReader.read_bit: the reader after the call and the bit
BitFileReaderReadBit(r, file) ==
    LET u == BitFileReaderUpdate(r, file)
    IN  [r |-> [u EXCEPT !.buffer = @ \div 2, !.current = @ + 1],
         bit |-> u.buffer % 2]

FileIdle ==
    /\ fin = <<>> /\ fmode = "given" /\ fw = BitFileWriterInit /\ ffile = <<>>
    /\ fr = BitFileReaderInit /\ fout = <<>> /\ favail = "none" /\ fphase = "off"

-----------------------------------------------------------------------------
(* io/watermark.py: WatermarkBitGenerator, ConstantBitReader and           *)
(* RandomBitReader.  A size of None is sized = FALSE.                      *)

\* WatermarkBitGenerator.__init__ with ConstantBitReader.__init__
\* (bit = int(bool(bit))) or RandomBitReader.__init__; drawn counts the
\* bits taken from Random(seed)
WatermarkBitGeneratorInit(args) ==
    [sized |-> args.sized, size |-> args.size,
     bit |-> IF args.bit # 0 THEN 1 ELSE 0, drawn |-> 0]

\* WatermarkBitGenerator.available
WatermarkBitGeneratorAvailable(r) == ~r.sized \/ r.size > 0

\* the size is left as it is
WatermarkBitGeneratorKeepSize(r) == r

\* WatermarkBitGenerator._reduce_size: `if self.size and self.size > 0`
WatermarkBitGeneratorReduceSize(r) ==
    IF r.sized /\ r.size # 0 /\ r.size > 0 THEN [r EXCEPT !.size = @ - 1] ELSE r

\* ConstantBitReader.read_bit
ConstantBitReaderReadBit(r) ==
    [r |-> WatermarkBitGeneratorReduceSize(r), bit |-> r.bit]

\* RandomBitReader.read_bit: stream is the sequence Random(seed) yields
RandomBitReaderReadBit(r, stream) ==
    [r |-> [WatermarkBitGeneratorReduceSize(r) EXCEPT !.drawn = @ + 1],
     bit |-> stream[r.drawn + 1]]

-----------------------------------------------------------------------------
(* io/watermark.py: BWImageReader over (buffer, current) and BWImageWriter *)

BWImageReaderAvailable(buffer, current) == current < Len(buffer)

\* read_bit: buffer[self.current], 0-based, then current += 1
BWImageReaderReadBit(buffer, current) == buffer[current + 1]

BWImageWriterWriteBit(buffer, bit) == Append(buffer, bit)

\* the rows of np.reshape(samples, (-1, width)), for Len(samples) a
\* multiple of width
Reshape2(samples, width) ==
    [r \in 1..(Len(samples) \div width) |->
        [c \in 1..width |-> samples[(r - 1) * width + c]]]

\* np.reshape(image, -1): the rows one after the other
Flatten(image) ==
    IF image = <<>> THEN <<>>
    ELSE [i \in 1..(Len(image) * Len(image[1])) |->
            image[((i - 1) \div Len(image[1])) + 1][((i - 1) % Len(image[1])) + 1]]

\* the samples left as the bits, not scaled to 255
BWImageWriterBuffer2BwUnscaled(buffer, width) ==
    Reshape2([i \in 1..Len(buffer) |-> buffer[i]], width)

\* BWImageWriter._buffer2bw: 255 for a set bit and 0 for a clear one, in
\* rows of width samples
BWImageWriterBuffer2Bw(buffer, width) ==
    Reshape2([i \in 1..Len(buffer) |-> IF buffer[i] # 0 THEN 255 ELSE 0], width)

\* BWImageWriter.flush: np.reshape raises when the number of bits is not a
\* multiple of width, and cv2.imwrite raises on an image with no row
BWImageWriterFlushRaises(buffer, width) ==
    Len(buffer) = 0 \/ Len(buffer) % width # 0

\* BWImageReader._resize: height = int(shape[0] * width / shape[1]) and
\* cv2.resize to (width, height); an image that has that size already
\* keeps its samples, any other is sampled at the nearest source position
BWImageReaderResize(image, width) ==
    LET rows == Len(image)
        cols == Len(image[1])
        height == (rows * width) \div cols
    IN  IF width = cols /\ height = rows THEN image
        ELSE [r \in 1..height |-> [c \in 1..width |->
                image[(((r - 1) * rows) \div height) + 1][(((c - 1) * cols) \div width) + 1]]]

\* cv2.threshold(gray, 127, 1, THRESH_BINARY): 1 above 127, else 0
Threshold(image) ==
    [r \in 1..Len(image) |-> [c \in 1..Len(image[r]) |->
        IF image[r][c] > 127 THEN 1 ELSE 0]]

\* BWImageReader._image2bin: resize when a width is given (0 for none),
\* the grey level of a sample written grey is the sample, threshold,
\* flatten
BWImageReaderImage2Bin(image, width) ==
    Flatten(Threshold(IF width # 0 THEN BWImageReaderResize(image, width) ELSE image))

-----------------------------------------------------------------------------
(* methods.py: CapacityEmphasis and RobustnessEmphasis over the groups     *)
(* (domains) of one window position.  embed returns the groups, the        *)
(* reader's position, the count and the exception raised, if any; extract  *)
(* returns the writer's buffer and the count.                              *)

RECURSIVE CapacityEmbedLoop(_, _, _, _, _)
CapacityEmbedLoop(domains, k, buffer, current, embedded) ==
    IF k > Len(domains) \/ ~BWImageReaderAvailable(buffer, current)
    THEN [domains |-> domains, current |-> current, amount |-> embedded, exc |-> NoExc]
    ELSE CapacityEmbedLoop(
            [domains EXCEPT ![k] =
                WindowMedianBitManipulatorEmbed(@, BWImageReaderReadBit(buffer, current))],
            k + 1, buffer, current + 1, embedded + 1)

CapacityEmphasisEmbed(domains, buffer, current) ==
    CapacityEmbedLoop(domains, 1, buffer, current, 0)

RobustnessEmphasisEmbed(domains, buffer, current) ==
    IF ~(current < Len(buffer))
    THEN \* read_bit indexes past the end of the buffer
         [domains |-> domains, current |-> current, amount |-> 0, exc |-> "IndexError"]
    ELSE LET bit == BWImageReaderReadBit(buffer, current)
         IN  [domains |-> [k \in 1..Len(domains) |->
                              WindowMedianBitManipulatorEmbed(domains[k], bit)],
              current |-> current + 1, amount |-> 1, exc |-> NoExc]

RECURSIVE CapacityExtractLoop(_, _, _, _, _)
CapacityExtractLoop(domains, k, wbuffer, quantity, extracted) ==
    IF k > Len(domains) \/ quantity < 1
    THEN [wbuffer |-> wbuffer, amount |-> extracted]
    ELSE CapacityExtractLoop(
            domains, k + 1,
            BWImageWriterWriteBit(wbuffer, WindowMedianBitManipulatorExtract(domains[k])),
            quantity - 1, extracted + 1)

CapacityEmphasisExtract(domains, wbuffer, quantity) ==
    CapacityExtractLoop(domains, 1, wbuffer, quantity, 0)

\* a plausible slip: the vote is won with half of the groups
RobustnessEmphasisExtractHalf(domains, wbuffer, quantity) ==
    LET cnt == SumSeq([k \in 1..Len(domains) |->
                          WindowMedianBitManipulatorExtract(domains[k])])
        bit == IF cnt >= (Len(domains) \div 2) THEN 1 ELSE 0
    IN  [wbuffer |-> BWImageWriterWriteBit(wbuffer, bit), amount |-> 1]

RobustnessEmphasisExtract(domains, wbuffer, quantity) ==
    LET cnt == SumSeq([k \in 1..Len(domains) |->
                          WindowMedianBitManipulatorExtract(domains[k])])
        bit == IF cnt > (Len(domains) \div 2) THEN 1 ELSE 0
    IN  [wbuffer |-> BWImageWriterWriteBit(wbuffer, bit), amount |-> 1]

SubmethodEmbed(emph, domains, buffer, current) ==
    IF emph = "capacity" THEN CapacityEmphasisEmbed(domains, buffer, current)
    ELSE RobustnessEmphasisEmbed(domains, buffer, current)

SubmethodExtract(emph, domains, wbuffer, quantity) ==
    IF emph = "capacity" THEN CapacityEmphasisExtract(domains, wbuffer, quantity)
    ELSE RobustnessEmphasisExtract(domains, wbuffer, quantity)

-----------------------------------------------------------------------------
(* methods.py: WindowMedian over a stacked domain, domain[r][c][k]         *)

\* range(0, len(r) - (window_size - 1), window_size), as 1-based starts
WindowStarts(len) ==
    [n \in 1..(IF len >= WindowSize THEN ((len - WindowSize) \div WindowSize) + 1 ELSE 0)
        |-> (n - 1) * WindowSize + 1]

\* the window positions in the order of the two nested loops
WindowSlots(domain) ==
    LET starts == WindowStarts(Len(domain[1]))
        n == Len(starts)
    IN  [s \in 1..(Len(domain) * n) |->
            <<((s - 1) \div n) + 1, starts[((s - 1) % n) + 1]>>]

\* r[j : j + window_size].T : one window of window_size values per depth index
GetWindow(domain, r, j) ==
    [k \in 1..Len(domain[r][j]) |-> [i \in 1..WindowSize |-> domain[r][j + i - 1][k]]]

\* the window is a view: what the manipulators write lands in the domain
PutWindow(domain, r, j, window) ==
    [domain EXCEPT ![r] =
        [c \in 1..Len(@) |->
            IF c >= j /\ c < j + WindowSize
            THEN [k \in 1..Len(@[c]) |-> window[k][c - j + 1]]
            ELSE @[c]]]

RECURSIVE WindowMedianEmbedLoop(_, _, _, _, _, _, _)
WindowMedianEmbedLoop(emph, domain, slots, s, buffer, current, embedded) ==
    IF s > Len(slots) \/ ~BWImageReaderAvailable(buffer, current)
    THEN [domain |-> domain, current |-> current, amount |-> embedded, exc |-> NoExc]
    ELSE LET r == slots[s][1]
             j == slots[s][2]
             res == SubmethodEmbed(emph, GetWindow(domain, r, j), buffer, current)
         IN  IF res.exc # NoExc
             THEN [domain |-> domain, current |-> res.current,
                   amount |-> embedded, exc |-> res.exc]
             ELSE WindowMedianEmbedLoop(emph, PutWindow(domain, r, j, res.domains),
                                        slots, s + 1, buffer, res.current,
                                        embedded + res.amount)

WindowMedianEmbed(emph, domain, buffer, current) ==
    WindowMedianEmbedLoop(emph, domain, WindowSlots(domain), 1, buffer, current, 0)

RECURSIVE WindowMedianExtractLoop(_, _, _, _, _, _, _)
WindowMedianExtractLoop(emph, domain, slots, s, wbuffer, quantity, extracted) ==
    IF s > Len(slots) \/ quantity < 1
    THEN [wbuffer |-> wbuffer, amount |-> extracted]
    ELSE LET r == slots[s][1]
             j == slots[s][2]
             res == SubmethodExtract(emph, GetWindow(domain, r, j), wbuffer, quantity)
         IN  WindowMedianExtractLoop(emph, domain, slots, s + 1, res.wbuffer,
                                     quantity - res.amount, extracted + res.amount)

WindowMedianExtract(emph, domain, wbuffer, quantity) ==
    WindowMedianExtractLoop(emph, domain, WindowSlots(domain), 1, wbuffer, quantity, 0)

-----------------------------------------------------------------------------
(* transforms.py: the stages of frame2dwt_stack that follow the subband    *)
(* selection: Every(Transpose()) when the position is vertical, then       *)
(* DepthStack().  None of them uses the scratch stack.                     *)

TransposeT(m) ==
    [c \in 1..Len(m[1]) |-> [r \in 1..Len(m) |-> m[r][c]]]

\* np.dstack: domain[r][c][k] = subbands[k][r][c]
DepthStackTransform(subbands) ==
    [r \in 1..Len(subbands[1]) |->
        [c \in 1..Len(subbands[1][1]) |->
            [k \in 1..Len(subbands) |-> subbands[k][r][c]]]]

\* [domain[:, :, i] for i in range(depth)]
DepthStackRestore(domain) ==
    [k \in 1..Len(domain[1][1]) |->
        [r \in 1..Len(domain) |->
            [c \in 1..Len(domain[1]) |-> domain[r][c][k]]]]

Reverse(s) == [i \in 1..Len(s) |-> s[Len(s) + 1 - i]]

EveryTransposeTransform(domains) ==
    [k \in 1..Len(domains) |-> TransposeT(domains[k])]

\* restore visits the list reversed and reverses the result back
EveryTransposeRestore(domains) ==
    Reverse([k \in 1..Len(domains) |-> TransposeT(Reverse(domains)[k])])

Frame2DwtStackTransform(pos, frame) ==
    DepthStackTransform(IF pos = "vr" THEN EveryTransposeTransform(frame) ELSE frame)

Frame2DwtStackRestore(pos, domain) ==
    LET subbands == DepthStackRestore(domain)
    IN  IF pos = "vr" THEN EveryTransposeRestore(subbands) ELSE subbands

\* core.py FrameEmbeddingKit.handle: transform, embed, restore
Handle(pos, emph, frame, buffer, current) ==
    LET domain == Frame2DwtStackTransform(pos, frame)
        res == WindowMedianEmbed(emph, domain, buffer, current)
    IN  [frame |-> Frame2DwtStackRestore(pos, res.domain),
         current |-> res.current, amount |-> res.amount, exc |-> res.exc]

\* core.py BlindWatermarkExtractor._frame2watermark
Frame2Watermark(pos, emph, frame, wbuffer, quantity) ==
    WindowMedianExtract(emph, Frame2DwtStackTransform(pos, frame), wbuffer, quantity)

-----------------------------------------------------------------------------
(* transforms.py: Pipe, Every and the stages, on symbolic domains.         *)
(*                                                                         *)
(* A domain is a term [op, k, args]: an atom (an array, k its identity), a *)
(* list (a Python list or tuple of sub-domains), or the k-th output of the *)
(* stage op applied to args.  A token of the scratch stack records what    *)
(* was pushed (payload) and, as a ghost, which stage pushed it for which   *)
(* element: stage is the position of the stage in the tree, elem the       *)
(* indices of the enclosing Every iterations.                              *)

Atom(id) == [op |-> "atom", k |-> id, args |-> <<>>]
List(xs) == [op |-> "list", k |-> 0, args |-> xs]
Ap(name, i, xs) == [op |-> name, k |-> i, args |-> xs]
Unmatched(d) == [op |-> "unmatched", k |-> 0, args |-> <<d>>]

Token(path, elem, d) == [stage |-> path, elem |-> elem, payload |-> d]

\* a node of the tree; form says what the stage does to the shape of the
\* domain: "one" array to array, "split" array to tuple of n, "merge" list to
\* array, "select" the sub-list sel of a list, "item" the n-th item of a list
Node(kind, name, push, form, sel, n, ts) ==
    [kind |-> kind, name |-> name, push |-> push, form |-> form, sel |-> sel,
     n |-> n, ts |-> ts]

Stage(name, push, form, sel, n) == Node("stage", name, push, form, sel, n, <<>>)
Pipe(ts) == Node("pipe", "Pipe", FALSE, "", <<>>, 0, ts)
Every(ts) == Node("every", "Every", FALSE, "", <<>>, 0, ts)

ToColorSpace == Stage("ToColorSpace", FALSE, "one", <<>>, 0)
ChannelFilter == Stage("ChannelFilter", TRUE, "one", <<>>, 0)
Normalize == Stage("Normalize", FALSE, "one", <<>>, 0)
ToWavelet == Stage("ToWavelet", TRUE, "split", <<>>, 4)
WaveletFilter(indices) == Stage("WaveletFilter", TRUE, "select", indices, 0)
Transpose == Stage("Transpose", FALSE, "one", <<>>, 0)
DepthStack == Stage("DepthStack", FALSE, "merge", <<>>, 0)
ToZigzagOrder == Stage("ToZigzagOrder", TRUE, "one", <<>>, 0)
EvenOddDecomposition == Stage("EvenOddDecomposition", FALSE, "split", <<>>, 2)
ToCosineTransform == Stage("ToCosineTransform", TRUE, "one", <<>>, 0)
Reshape == Stage("Reshape", TRUE, "one", <<>>, 0)
SingularValueDecomposition == Stage("SingularValueDecomposition", FALSE, "split", <<>>, 3)
\* ItemFilter(1): the second item
ItemFilter == Stage("ItemFilter", TRUE, "item", <<>>, 2)

\* the result of a transform or a restore: the domain, the stack, ok (every
\* pop so far found a token, and its own), valid (the domain had the shape the
\* stage needs; an invalid input is outside the claims)
Res(d, mem, ok, valid) == [dom |-> d, mem |-> mem, ok |-> ok, valid |-> valid]

StageOutput(t, d) ==
    IF t.form = "one" THEN Ap(t.name, 0, <<d>>)
    ELSE IF t.form = "split" THEN List([i \in 1..t.n |-> Ap(t.name, i, <<d>>)])
    ELSE IF t.form = "merge" THEN Ap(t.name, 0, d.args)
    ELSE IF t.form = "select" THEN List([i \in 1..Len(t.sel) |-> d.args[t.sel[i]]])
    ELSE d.args[t.n]

StageAccepts(t, d) ==
    IF t.form \in {"one", "split"} THEN TRUE
    ELSE IF t.form = "merge" THEN d.op = "list" /\ Len(d.args) > 0
    ELSE IF t.form = "select"
    THEN d.op = "list" /\ \A i \in 1..Len(t.sel) : t.sel[i] <= Len(d.args)
    ELSE d.op = "list" /\ t.n <= Len(d.args)

\* <Stage>.transform: memory.append(...) for the stages that push
StageTransform(t, d, mem, ok, path, elem) ==
    IF ~StageAccepts(t, d) THEN Res(d, mem, ok, FALSE)
    ELSE Res(StageOutput(t, d),
             IF t.push THEN Append(mem, Token(path, elem, d)) ELSE mem,
             ok, TRUE)

\* the domain a restore returns, tok the token it popped (if it pops)
StageInverse(t, d, tok) ==
    IF t.form = "one"
    THEN IF d.op = t.name /\ d.k = 0 /\ (t.push => tok.payload = d.args[1])
         THEN d.args[1] ELSE Unmatched(d)
    ELSE IF t.form = "split"
    THEN IF /\ d.op = "list" /\ Len(d.args) = t.n
            /\ \A i \in 1..t.n : d.args[i].op = t.name /\ d.args[i].k = i
                                   /\ d.args[i].args = d.args[1].args
            /\ (t.push => tok.payload = d.args[1].args[1])
         THEN d.args[1].args[1] ELSE Unmatched(d)
    ELSE IF t.form = "merge"
    THEN IF d.op = t.name THEN List(d.args) ELSE Unmatched(d)
    ELSE IF t.form = "select"
    THEN \* domain = memory.pop(); domain[k] = subbands[i] for i, k in indices
         List([j \in 1..Len(tok.payload.args) |->
                 IF \E i \in 1..Len(t.sel) : t.sel[i] = j
                 THEN d.args[CHOOSE i \in 1..Len(t.sel) : t.sel[i] = j]
                 ELSE tok.payload.args[j]])
    ELSE \* domain = memory.pop(); domain[index] = item
         List([j \in 1..Len(tok.payload.args) |->
                 IF j = t.n THEN d ELSE tok.payload.args[j]])

\* <Stage>.restore: memory.pop() for the stages that push
StageRestore(t, d, mem, ok, path, elem) ==
    IF ~t.push THEN Res(StageInverse(t, d, Token(path, elem, d)), mem, ok, TRUE)
    ELSE IF Len(mem) = 0 THEN Res(Unmatched(d), mem, FALSE, TRUE)
    ELSE LET tok == mem[Len(mem)]
         IN  IF t.form \in {"select", "item"} /\
                  ~(tok.payload.op = "list" /\ d.op = (IF t.form = "select" THEN "list" ELSE d.op)
                    /\ (t.form = "select" => Len(d.args) = Len(t.sel)))
             THEN Res(Unmatched(d), SubSeq(mem, 1, Len(mem) - 1), FALSE, TRUE)
             ELSE Res(StageInverse(t, d, tok), SubSeq(mem, 1, Len(mem) - 1),
                      ok /\ tok.stage = path /\ tok.elem = elem, TRUE)

RECURSIVE Transform(_, _, _, _, _, _)
RECURSIVE PipeTransformLoop(_, _, _, _, _)
RECURSIVE EveryTransformLoop(_, _, _, _, _, _, _)
RECURSIVE Restore(_, _, _, _, _, _)
RECURSIVE PipeRestoreLoop(_, _, _, _, _)
RECURSIVE EveryRestoreLoop(_, _, _, _, _, _, _)

\* Pipe.transform: for t in self.transformations, from the i-th on
PipeTransformLoop(ts, i, r, path, elem) ==
    IF i > Len(ts) \/ ~r.valid THEN r
    ELSE PipeTransformLoop(ts, i + 1,
             Transform(ts[i], r.dom, r.mem, r.ok, Append(path, i), elem), path, elem)

\* Every.transform: [super().transform(d, memory) for d in domains]; doms
\* collects the results, j is the index of the next element
EveryTransformLoop(t, xs, j, doms, r, path, elem) ==
    IF j > Len(xs) \/ ~r.valid THEN [r EXCEPT !.dom = List(doms)]
    ELSE LET rj == PipeTransformLoop(t.ts, 1, Res(xs[j], r.mem, r.ok, TRUE),
                                     path, Append(elem, j))
         IN  EveryTransformLoop(t, xs, j + 1, Append(doms, rj.dom), rj, path, elem)

EveryTransform(t, d, mem, ok, path, elem) ==
    IF d.op # "list" THEN Res(d, mem, ok, FALSE)
    ELSE EveryTransformLoop(t, d.args, 1, <<>>, Res(d, mem, ok, TRUE), path, elem)

Transform(t, d, mem, ok, path, elem) ==
    IF t.kind = "stage" THEN StageTransform(t, d, mem, ok, path, elem)
    ELSE IF t.kind = "pipe" THEN PipeTransformLoop(t.ts, 1, Res(d, mem, ok, TRUE), path, elem)
    ELSE EveryTransform(t, d, mem, ok, path, elem)

\* Pipe.restore: for t in reversed(self.transformations), from the i-th down
PipeRestoreLoop(ts, i, r, path, elem) ==
    IF i < 1 \/ ~r.valid THEN r
    ELSE PipeRestoreLoop(ts, i - 1,
             Restore(ts[i], r.dom, r.mem, r.ok, Append(path, i), elem), path, elem)

\* the list comprehension of Every.restore over the elements in the order
\* given: order[j] is the index of the j-th element visited
EveryRestoreLoop(t, xs, order, doms, r, path, elem) ==
    IF Len(order) = 0 \/ ~r.valid THEN [r EXCEPT !.dom = List(doms)]
    ELSE LET rj == PipeRestoreLoop(t.ts, Len(t.ts), Res(xs[order[1]], r.mem, r.ok, TRUE),
                                   path, Append(elem, order[1]))
         IN  EveryRestoreLoop(t, xs, Tail(order), Append(doms, rj.dom), rj, path, elem)

\* a plausible slip: the elements are restored first to last
EveryRestoreForward(t, d, mem, ok, path, elem) ==
    IF d.op # "list" THEN Res(d, mem, ok, FALSE)
    ELSE EveryRestoreLoop(t, d.args, [j \in 1..Len(d.args) |-> j], <<>>,
                          Res(d, mem, ok, TRUE), path, elem)

\* a plausible slip: the restored list is returned in the order visited
EveryRestoreUnreversed(t, d, mem, ok, path, elem) ==
    IF d.op # "list" THEN Res(d, mem, ok, FALSE)
    ELSE EveryRestoreLoop(t, d.args, Reverse([j \in 1..Len(d.args) |-> j]), <<>>,
                          Res(d, mem, ok, TRUE), path, elem)

\* Every.restore: [super().restore(d, memory) for d in reversed(domains)],
\* then domains[::-1]
EveryRestore(t, d, mem, ok, path, elem) ==
    IF d.op # "list" THEN Res(d, mem, ok, FALSE)
    ELSE LET r == EveryRestoreLoop(t, d.args, Reverse([j \in 1..Len(d.args) |-> j]),
                                   <<>>, Res(d, mem, ok, TRUE), path, elem)
         IN  [r EXCEPT !.dom = List(Reverse(r.dom.args))]

Restore(t, d, mem, ok, path, elem) ==
    IF t.kind = "stage" THEN StageRestore(t, d, mem, ok, path, elem)
    ELSE IF t.kind = "pipe"
    THEN PipeRestoreLoop(t.ts, Len(t.ts), Res(d, mem, ok, TRUE), path, elem)
    ELSE EveryRestore(t, d, mem, ok, path, elem)

-----------------------------------------------------------------------------
(* transforms.py: the pipelines of the algorithms *)

\* WaveletFilter.__init__: sorted(s.index for s in set(subbands)), 1-based here
SubbandSelections ==
    {<<1>>, <<2>>, <<3>>, <<4>>, <<1, 2>>, <<1, 3>>, <<1, 4>>, <<2, 3>>, <<2, 4>>,
     <<3, 4>>, <<1, 2, 3>>, <<1, 2, 4>>, <<1, 3, 4>>, <<2, 3, 4>>, <<1, 2, 3, 4>>}

frame2wavelet(subbands) ==
    <<ToColorSpace, ChannelFilter, Normalize, ToWavelet, WaveletFilter(subbands)>>

\* pipe.extend(...) appends to the stages of frame2wavelet
frame2dwt_stack(pos, subbands) ==
    Pipe(frame2wavelet(subbands)
         \o (IF pos = "vr" THEN <<Every(<<Transpose>>)>> ELSE <<>>)
         \o <<DepthStack>>)

frame2dwt_dct(subbands) ==
    Pipe(<<Pipe(frame2wavelet(subbands)),
           Every(<<ToZigzagOrder, EvenOddDecomposition,
                   Every(<<ToCosineTransform, Reshape>>)>>)>>)

frame2dwt_svd(subbands) ==
    Pipe(<<Pipe(frame2wavelet(subbands)),
           Every(<<SingularValueDecomposition, ItemFilter>>)>>)

AlgorithmPipelines ==
    {frame2dwt_stack(pos, sb) : pos \in {"hr", "vr"}, sb \in SubbandSelections}
    \cup {frame2dwt_dct(sb) : sb \in SubbandSelections}
    \cup {frame2dwt_svd(sb) : sb \in SubbandSelections}

(* Nested compositions: Pipe or Every of one or two members, each member a *)
(* stage or such a composition of stages.                                  *)
OneOrTwo(S) == {<<a>> : a \in S} \cup {<<a, b>> : a \in S, b \in S}

Compose(S) == {Pipe(ts) : ts \in OneOrTwo(S)} \cup {Every(ts) : ts \in OneOrTwo(S)}

BasicStages == {Reshape, Transpose, EvenOddDecomposition}

Compositions == Compose(BasicStages) \cup Compose(BasicStages \cup Compose(BasicStages))

\* the input domains: an array, a list of arrays, a list of lists of arrays,
\* the arrays all distinct
AtomList(first, n) == List([j \in 1..n |-> Atom(first + j - 1)])

InputDomains ==
    {Atom(1)}
    \cup {AtomList(1, n) : n \in 0..MaxList}
    \cup {List([i \in 1..n |-> AtomList((i - 1) * m + 1, m)]) : n \in 1..MaxList, m \in 0..MaxList}

ValidFor(t, d) == Transform(t, d, <<>>, TRUE, <<>>, <<>>).valid

PipeInputs ==
    {<<t, Atom(1)>> : t \in AlgorithmPipelines}
    \cup {<<t, d>> \in Compositions \X InputDomains : ValidFor(t, d)}

-----------------------------------------------------------------------------
(* The inputs of a run.  Each frame is two subbands of one row of four     *)
(* coefficients: with the horizontal position a frame holds one complete   *)
(* window (and one coefficient left over) in each of its two groups, with  *)
(* the vertical position it holds no complete window.                      *)

FlatFrame == << << <<1, 1, 1, 1>> >>, << <<1, 1, 1, 1>> >> >>
RampFrame == << << <<0, 1, 2, 3>> >>, << <<3, 1, 0, 2>> >> >>
TiedFrame == << << <<2, 0, 2, 1>> >>, << <<0, 0, 1, 3>> >> >>

FramePool == {FlatFrame, RampFrame, TiedFrame}

SeqsUpTo(S, n) == UNION {[1..m -> S] : m \in 0..n}

Videos == SeqsUpTo(FramePool, MaxFrames)
Watermarks == SeqsUpTo(Bits, MaxBits)

-----------------------------------------------------------------------------
(* core.py: statistics, events *)

\* EmbeddingStatistics(self.frames); oid is the identity of the object
EmbeddingStatistics(total) ==
    [oid |-> 1, total_frames |-> total, embedded |-> 0, copied |-> 0,
     full_watermark |-> FALSE, start_time |-> 0, end_time |-> 0]

frames_with_watermark(s) == s.total_frames - s.copied

ExtractingStatistics(quantity) ==
    [oid |-> 1, left |-> quantity, extracted |-> 0, start_time |-> 0, end_time |-> 0]

total(s) == s.left + s.extracted

full_watermark(s) == s.left = 0

\* util/base.py CloneableDataclass.shallow_copy: replace(self) builds a new
\* object with the same field values
shallow_copy(s) == [s EXCEPT !.oid = @ + 1]

\* util/base.py Observable.notify: the event and its keyword arguments
Notify(evs, event, kwargs) == Append(evs, [ev |-> event, kw |-> kwargs])

NoKw == [none |-> TRUE]

\* a plausible slip: the except clause re-raises without notifying
EmbedExceptSilent(evs, e) == [events |-> evs, raised |-> e]

\* core.py WatermarkEmbedder.embed, the except clause: notify, then raise
EmbedExcept(evs, e) ==
    [events |-> Notify(evs, "ERROR_EMBEDDING", [exception |-> e]), raised |-> e]

\* core.py BlindWatermarkExtractor.extract, the except clause
ExtractExcept(evs, e) ==
    [events |-> Notify(evs, "ERROR_EXTRACTING", [exception |-> e]), raised |-> e]

\* core.py FrameEmbeddingKit.workable
Workable(buffer, current) == BWImageReaderAvailable(buffer, current)

-----------------------------------------------------------------------------
(* The run as a state machine.  Here is the state the steps change, as a   *)
(* record; exc is the exception raised inside the step, if any.            *)

Here ==
    [pc |-> pc, rpos |-> rpos, cur |-> cur, success |-> success, early |-> early,
     stats |-> stats, out |-> out, handled |-> handled, events |-> events,
     clock |-> clock, raised |-> raised, ret |-> ret, xstats |-> xstats,
     xpos |-> xpos, xsuccess |-> xsuccess, written |-> written, xret |-> xret,
     ncopied |-> ncopied, xq |-> xq, exc |-> thrown]

Commit(n) ==
    /\ pc' = n.pc /\ rpos' = n.rpos /\ cur' = n.cur /\ success' = n.success
    /\ early' = n.early /\ stats' = n.stats /\ out' = n.out /\ handled' = n.handled
    /\ events' = n.events /\ clock' = n.clock /\ raised' = n.raised /\ ret' = n.ret
    /\ xstats' = n.xstats /\ xpos' = n.xpos /\ xsuccess' = n.xsuccess
    /\ written' = n.written /\ xret' = n.xret /\ ncopied' = n.ncopied
    /\ thrown' = n.exc /\ xq' = n.xq
    /\ UNCHANGED <<video, wm, copy, emphasis, position>>
    /\ UNCHANGED notRun

\* core.py WatermarkEmbedder.embed: try: return self._embed(...) except ...
EmbedTry(n) ==
    IF n.exc = NoExc THEN n
    ELSE LET h == EmbedExcept(n.events, n.exc)
         IN  [n EXCEPT !.events = h.events, !.raised = h.raised, !.pc = "raised"]

\* core.py BlindWatermarkExtractor.extract: try ... except ...
ExtractTry(n) ==
    IF n.exc = NoExc THEN n
    ELSE LET h == ExtractExcept(n.events, n.exc)
         IN  [n EXCEPT !.events = h.events, !.raised = h.raised, !.pc = "xraised"]

\* A step that raises leaves the exception in exc; the steps after it in the
\* same call are skipped.  f names the step that raises in this execution
\* ("ok" when none does).
Raise(n, e) == [n EXCEPT !.exc = e]

\* a notify() whose subscriber callback raises when sub is true
NotifyStep(n, event, kwargs, sub) ==
    IF n.exc # NoExc THEN n
    ELSE IF sub THEN Raise([n EXCEPT !.events = Notify(@, event, kwargs)], "subscriber")
    ELSE [n EXCEPT !.events = Notify(@, event, kwargs)]

\* core.py _embed lines 92-98: start_time, then the branch on workable()
EmbedBranch(n) ==
    IF n.exc # NoExc THEN n
    ELSE IF ~Workable(wm, n.cur)
    THEN IF copy
         THEN [n EXCEPT !.clock = @ + 1, !.stats.start_time = n.clock + 1,
                        !.early = TRUE, !.pc = "copy"]
         ELSE [n EXCEPT !.clock = @ + 1, !.stats.start_time = n.clock + 1,
                        !.early = TRUE, !.pc = "done",
                        !.ret = <<[n.stats EXCEPT !.start_time = n.clock + 1]>>]
    ELSE [n EXCEPT !.clock = @ + 1, !.stats.start_time = n.clock + 1,
                   !.success = TRUE, !.pc = "stream"]

\* core.py _embed lines 91-98: the start of the run
EmbedBegin(n, f) ==
    EmbedBranch(NotifyStep(n, "AFTER_EMBEDDING", NoKw, f = "subscriber"))

\* a plausible slip: the frame the handler returned is not written
TransferFrameUnwritten(n, f, res) ==
    IF f \in {"transform", "embed"} THEN Raise([n EXCEPT !.rpos = @ + 1, !.handled = @ + 1], f)
    ELSE IF res.exc # NoExc
    THEN Raise([n EXCEPT !.rpos = @ + 1, !.handled = @ + 1, !.cur = res.current], res.exc)
    ELSE IF f \in {"restore", "write"}
    THEN Raise([n EXCEPT !.rpos = @ + 1, !.handled = @ + 1, !.cur = res.current], f)
    ELSE [n EXCEPT
             !.rpos = @ + 1, !.handled = @ + 1, !.cur = res.current,
             !.success = TRUE,
             !.stats.embedded = @ + res.amount]

\* io/video.py VideoTunnel.transfer, the frame read and handled: res is the
\* result of the kit's handle
TransferFrame(n, f, res) ==
    IF f \in {"transform", "embed"} THEN Raise([n EXCEPT !.rpos = @ + 1, !.handled = @ + 1], f)
    ELSE IF res.exc # NoExc
    THEN Raise([n EXCEPT !.rpos = @ + 1, !.handled = @ + 1, !.cur = res.current], res.exc)
    ELSE IF f \in {"restore", "write"}
    THEN Raise([n EXCEPT !.rpos = @ + 1, !.handled = @ + 1, !.cur = res.current], f)
    ELSE [n EXCEPT
             !.rpos = @ + 1, !.handled = @ + 1, !.cur = res.current,
             !.out = Append(@, [src |-> n.rpos + 1, kit |-> TRUE, data |-> res.frame]),
             !.success = TRUE,
             \* statistics.embedded += success and result[1]
             !.stats.embedded = @ + res.amount]

\* io/video.py VideoTunnel.transfer with the embedding kit as handler
Transfer(n, f) ==
    IF n.exc # NoExc THEN n
    ELSE IF f = "read" THEN Raise(n, "read")
    ELSE IF ~(n.rpos < Len(video)) THEN [n EXCEPT !.success = FALSE]
    ELSE TransferFrame(n, f, Handle(position, emphasis, video[n.rpos + 1], wm, n.cur))

\* core.py _embed line 100: the loop condition, and lines 106-107 behind it
EmbedLoopCondition(n) ==
    IF n.exc # NoExc THEN n
    ELSE IF n.success /\ Workable(wm, n.cur) THEN n
    ELSE [n EXCEPT !.pc = IF copy THEN "copy" ELSE "finish"]

NotifyEmbeddingStep(n, event, sub) ==
    NotifyStep(n, event,
               [position |-> n.rpos, total |-> n.stats.total_frames,
                embedded |-> n.stats.embedded], sub)

\* core.py _embed lines 100-104: one iteration of the streaming loop, then
\* the loop condition
EmbedIteration(n, f) ==
    EmbedLoopCondition(
        NotifyEmbeddingStep(
            Transfer(
                NotifyEmbeddingStep(n, "BEFORE_FRAME_EMBEDDING", f = "subscriber_before"),
                f),
            "AFTER_FRAME_EMBEDDING", f = "subscriber_after"))

NotifyCopyStep(n, event, sub) ==
    NotifyStep(n, event,
               [position |-> n.rpos, total |-> Len(video), copied |-> n.ncopied], sub)

\* reader.read() of copy_frames, a frame being left
CopyRead(n, f) ==
    IF f = "read" THEN Raise(n, "read") ELSE [n EXCEPT !.rpos = @ + 1]

\* self.writer.write(frame); copied += 1
CopyWrite(n, f) ==
    IF n.exc # NoExc THEN n
    ELSE IF f = "write" THEN Raise(n, "write")
    ELSE [n EXCEPT
             !.out = Append(@, [src |-> n.rpos, kit |-> FALSE, data |-> video[n.rpos]]),
             !.ncopied = @ + 1]

\* io/video.py VideoTunnel.copy_frames: one iteration of its loop
CopyIteration(n, f) ==
    NotifyCopyStep(
        CopyWrite(
            NotifyCopyStep(CopyRead(n, f), "BEFORE_FRAME_COPY", f = "subscriber_before"),
            f),
        "AFTER_FRAME_COPY", f = "subscriber_after")

\* copy_frames returns: statistics.copied = self.copy_frames(), and on the
\* branch of line 94 _embed returns the statistics at once (line 97)
CopyReturn(n, f) ==
    IF f = "read" THEN Raise(n, "read")
    ELSE IF n.early
    THEN [n EXCEPT !.stats.copied = n.ncopied, !.pc = "done",
                   !.ret = <<[n.stats EXCEPT !.copied = n.ncopied]>>]
    ELSE [n EXCEPT !.stats.copied = n.ncopied, !.pc = "finish"]

\* core.py _embed lines 109-110
EmbedStamp(n) ==
    [n EXCEPT !.clock = @ + 1, !.stats.end_time = n.clock + 1,
              !.stats.full_watermark = ~Workable(wm, n.cur)]

\* core.py _embed lines 112-114
EmbedNotifyAfter(n, f) ==
    NotifyStep(n, "AFTER_EMBEDDING", [statistics |-> shallow_copy(n.stats)],
               f = "subscriber")

\* core.py _embed line 115
EmbedReturn(n) ==
    IF n.exc # NoExc THEN n ELSE [n EXCEPT !.pc = "done", !.ret = <<n.stats>>]

\* core.py _embed lines 109-115
EmbedEnd(n, f) == EmbedReturn(EmbedNotifyAfter(EmbedStamp(n), f))

EmbedStart ==
    /\ pc = "init"
    /\ \E f \in {"ok", "subscriber"} : Commit(EmbedTry(EmbedBegin(Here, f)))

EmbedFrame ==
    /\ pc = "stream"
    /\ \E f \in {"ok", "subscriber_before", "read", "transform", "embed", "restore",
                 "write", "subscriber_after"} :
          /\ f \in {"transform", "embed", "restore", "write"} => rpos < Len(video)
          /\ Commit(EmbedTry(EmbedIteration(Here, f)))

CopyFrame ==
    /\ pc = "copy"
    /\ rpos < Len(video)
    /\ \E f \in {"ok", "read", "subscriber_before", "write", "subscriber_after"} :
          Commit(EmbedTry(CopyIteration(Here, f)))

CopyFramesEnd ==
    /\ pc = "copy"
    /\ ~(rpos < Len(video))
    /\ \E f \in {"ok", "read"} : Commit(EmbedTry(CopyReturn(Here, f)))

EmbedFinish ==
    /\ pc = "finish"
    /\ \E f \in {"ok", "subscriber"} : Commit(EmbedTry(EmbedEnd(Here, f)))

-----------------------------------------------------------------------------
(* core.py BlindWatermarkExtractor over the video the embedder wrote *)

\* VideoReader.read on the written video
XRead(n, f) ==
    IF n.exc # NoExc THEN n
    ELSE IF f = "read" THEN Raise(n, "read")
    ELSE IF n.xpos < Len(n.out)
    THEN [n EXCEPT !.xpos = @ + 1, !.xsuccess = TRUE]
    ELSE [n EXCEPT !.xsuccess = FALSE]

\* _stream2watermark lines 191-192
ExtractStatistics(n, quantity) ==
    IF n.exc # NoExc THEN n
    ELSE [n EXCEPT !.xstats = [ExtractingStatistics(quantity) EXCEPT
                                  !.start_time = n.clock + 1],
                   !.clock = @ + 1, !.xq = quantity, !.pc = "xloop"]

\* _stream2watermark lines 189-194
ExtractBegin(n, f, quantity) ==
    XRead(ExtractStatistics(
              NotifyStep(n, "BEFORE_EXTRACTING", NoKw, f = "subscriber"), quantity), f)

NotifyExtractingStep(n, event, sub) ==
    NotifyStep(n, event, [total |-> total(n.xstats), position |-> n.xstats.extracted], sub)

\* a plausible slip: the loop forgets statistics.left -= amount
ExtractAccountKeepsLeft(n, res) ==
    [n EXCEPT !.written = res.wbuffer,
              !.xstats.extracted = @ + res.amount]

\* _stream2watermark lines 197-199, res the result of the method's extract
ExtractAccount(n, res) ==
    [n EXCEPT !.written = res.wbuffer,
              !.xstats.extracted = @ + res.amount,
              !.xstats.left = @ - res.amount]

\* _stream2watermark lines 197-199
ExtractAmount(n, f) ==
    IF n.exc # NoExc THEN n
    ELSE IF f \in {"transform", "extract"} THEN Raise(n, f)
    ELSE ExtractAccount(n, Frame2Watermark(position, emphasis, n.out[n.xpos].data,
                                           n.written, n.xstats.left))

\* _stream2watermark lines 195-201: one iteration of the loop
ExtractIteration(n, f) ==
    XRead(
        NotifyExtractingStep(
            ExtractAmount(
                NotifyExtractingStep(n, "BEFORE_FRAME_EXTRACTING", f = "subscriber_before"),
                f),
            "AFTER_FRAME_EXTRACTING", f = "subscriber_after"),
        f)

\* _stream2watermark line 203
ExtractStamp(n) == [n EXCEPT !.clock = @ + 1, !.xstats.end_time = n.clock + 1]

\* _stream2watermark line 204
ExtractNotifyAfter(n, f) ==
    NotifyStep(n, "AFTER_EXTRACTING", [statistics |-> shallow_copy(n.xstats)],
               f = "subscriber")

\* _stream2watermark line 206
ExtractReturn(n) ==
    IF n.exc # NoExc THEN n ELSE [n EXCEPT !.pc = "xdone", !.xret = <<n.xstats>>]

\* _stream2watermark lines 203-206
ExtractEnd(n, f) == ExtractReturn(ExtractNotifyAfter(ExtractStamp(n), f))

ExtractStart ==
    /\ pc = "done"
    /\ \E quantity \in 0..MaxQuantity : \E f \in {"ok", "subscriber", "read"} :
          Commit(ExtractTry(ExtractBegin(Here, f, quantity)))

ExtractFrame ==
    /\ pc = "xloop"
    /\ xsuccess /\ xstats.left > 0
    /\ \E f \in {"ok", "subscriber_before", "transform", "extract",
                 "subscriber_after", "read"} :
          Commit(ExtractTry(ExtractIteration(Here, f)))

ExtractFinish ==
    /\ pc = "xloop"
    /\ ~(xsuccess /\ xstats.left > 0)
    /\ \E f \in {"ok", "subscriber"} : Commit(ExtractTry(ExtractEnd(Here, f)))

-----------------------------------------------------------------------------
(* A transformation applied to a domain: transform on an empty stack, then *)
(* restore of what transform returned.                                     *)

RunIdle ==
    /\ video = <<>> /\ wm = <<>> /\ copy = FALSE /\ emphasis = "capacity"
    /\ position = "hr" /\ pc = "off" /\ rpos = 0 /\ cur = 0 /\ success = TRUE
    /\ early = FALSE /\ stats = EmbeddingStatistics(0) /\ out = <<>> /\ handled = 0
    /\ events = <<>> /\ clock = 0 /\ raised = NoExc /\ ret = <<>>
    /\ xstats = ExtractingStatistics(0) /\ xpos = 0 /\ xsuccess = FALSE
    /\ written = <<>> /\ xret = <<>> /\ ncopied = 0 /\ thrown = NoExc /\ xq = 0

PipeIdle ==
    /\ ptree = Pipe(<<>>) /\ pin = Atom(0) /\ pmid = Atom(0) /\ pdom = Atom(0)
    /\ pmem = <<>> /\ pok = TRUE /\ pphase = "off"

ManipIdle ==
    /\ mwindow = <<>> /\ mbit = 0 /\ mout = 0 /\ mphase = "off"
    /\ mkind = "WindowMedian" /\ malpha = 0

\* Algorithm.embed / Algorithm.extract: nothing opened, nothing returned
NoHandles ==
    [watermark |-> "none", reader |-> "none", writer |-> "none",
     reader_release |-> "none", writer_release |-> "none", opens |-> 0]

NoResult == [stats |-> <<>>, exc |-> NoExc]

ScopeIdle ==
    /\ cin = [op |-> "embed", src_ok |-> TRUE, dst_ok |-> TRUE, wm_ok |-> TRUE,
              wm_type |-> "bit-file", frames |-> 0, run_fault |-> FALSE,
              release_fault |-> "none"]
    /\ cpc = "off" /\ ch = NoHandles /\ cres = NoResult

\* the parts that a specification does not run
NoCallInput ==
    [method |-> "WindowMedian", emphasis |-> "RobustnessEmphasis", wmlen |-> 0,
     frames |-> 0, groups |-> 1, rows |-> 1, size |-> 1,
     window_size |-> WindowSize, repeats |-> 1, offset2 |-> 0, area2 |-> 0]

CallStart == [current |-> 0, frame |-> 0, success |-> TRUE, pos |-> 0, grp |-> 0]

CallIdle == qin = NoCallInput /\ qpc = "off" /\ qst = CallStart /\ qcalls = <<>>

IdleExceptRun == PipeIdle /\ ManipIdle /\ FileIdle /\ ShapeIdle /\ ScopeIdle /\ CallIdle
IdleExceptPipe == RunIdle /\ ManipIdle /\ FileIdle /\ ShapeIdle /\ ScopeIdle /\ CallIdle
IdleExceptManip == RunIdle /\ PipeIdle /\ FileIdle /\ ShapeIdle /\ ScopeIdle /\ CallIdle
IdleExceptFile == RunIdle /\ PipeIdle /\ ManipIdle /\ ShapeIdle /\ ScopeIdle /\ CallIdle
IdleExceptShape == RunIdle /\ PipeIdle /\ ManipIdle /\ FileIdle /\ ScopeIdle /\ CallIdle
IdleExceptScope == RunIdle /\ PipeIdle /\ ManipIdle /\ FileIdle /\ ShapeIdle /\ CallIdle
IdleExceptCall == RunIdle /\ PipeIdle /\ ManipIdle /\ FileIdle /\ ShapeIdle /\ ScopeIdle

InitPipe ==
    /\ IdleExceptPipe
    /\ \E x \in PipeInputs : ptree = x[1] /\ pin = x[2]
    /\ pmid = Atom(0)
    /\ pdom = pin
    /\ pmem = <<>>
    /\ pok = TRUE
    /\ pphase = "start"

\* memory = []; domain = self.transformation.transform(frame, memory)
DoTransform ==
    /\ pphase = "start"
    /\ LET r == Transform(ptree, pdom, pmem, pok, <<>>, <<>>)
       IN  /\ pdom' = r.dom /\ pmid' = r.dom /\ pmem' = r.mem /\ pok' = r.ok
    /\ pphase' = "transformed"
    /\ UNCHANGED <<ptree, pin>>
    /\ UNCHANGED notPipe

\* self.transformation.restore(watermarked_domain, memory)
DoRestore ==
    /\ pphase = "transformed"
    /\ LET r == Restore(ptree, pdom, pmem, pok, <<>>, <<>>)
       IN  /\ pdom' = r.dom /\ pmem' = r.mem /\ pok' = r.ok
    /\ pphase' = "restored"
    /\ UNCHANGED <<ptree, pin, pmid>>
    /\ UNCHANGED notPipe

NextPipe == DoTransform \/ DoRestore

SpecPipe == InitPipe /\ [][NextPipe]_vars

-----------------------------------------------------------------------------
(* A bit manipulator applied to one window: embed(window, bit), then       *)
(* extract(window) of the window embed left.  The windows have the lengths *)
(* the window-size option admits (WindowSize and more).                    *)

Windows == UNION {[1..n -> 0..MaxVal] : n \in WindowSize..MaxWindow}

InitManip ==
    /\ IdleExceptManip
    /\ mkind = "WindowMedian"
    /\ malpha = 0
    /\ mwindow \in Windows
    /\ mbit \in Bits
    /\ mout = 0
    /\ mphase = "start"

\* WindowMedianBitManipulator.embed(window, bit)
ManipEmbed ==
    /\ mphase = "start"
    /\ mwindow' = WindowMedianBitManipulatorEmbed(mwindow, mbit)
    /\ mphase' = "embedded"
    /\ UNCHANGED <<mbit, mout, mkind, malpha>>
    /\ UNCHANGED notManip

\* WindowMedianBitManipulator.extract(window)
ManipExtract ==
    /\ mphase = "embedded"
    /\ mout' = WindowMedianBitManipulatorExtract(mwindow)
    /\ mphase' = "extracted"
    /\ UNCHANGED <<mwindow, mbit, mkind, malpha>>
    /\ UNCHANGED notManip

NextManip == ManipEmbed \/ ManipExtract

SpecManip == InitManip /\ [][NextManip]_vars

(* The other two manipulators, each with its own alpha.                    *)

EvenValues == {2 * k : k \in (0 - MaxVal)..MaxVal}

\* the pairs (even, odd) of equal length, not empty
EvenOddPairs ==
    UNION {[1..2 -> [1..n -> EvenValues]] : n \in 1..(MaxWindow \div 2)}

InitEvenOdd ==
    /\ IdleExceptManip
    /\ mkind = "EvenOddDifferential"
    /\ malpha \in 0..MaxAlpha
    /\ mwindow \in EvenOddPairs
    /\ mbit \in Bits
    /\ mout = 0
    /\ mphase = "start"

\* EvenOddDifferentialBitManipulator.embed(domain, bit)
EvenOddEmbed ==
    /\ mphase = "start"
    /\ mwindow' = EvenOddDifferentialBitManipulatorEmbed(mwindow, mbit, malpha)
    /\ mphase' = "embedded"
    /\ UNCHANGED <<mbit, mout, mkind, malpha>>
    /\ UNCHANGED notManip

\* EvenOddDifferentialBitManipulator.extract(domain)
EvenOddExtract ==
    /\ mphase = "embedded"
    /\ mout' = EvenOddDifferentialBitManipulatorExtract(mwindow)
    /\ mphase' = "extracted"
    /\ UNCHANGED <<mwindow, mbit, mkind, malpha>>
    /\ UNCHANGED notManip

NextEvenOdd == EvenOddEmbed \/ EvenOddExtract

SpecEvenOdd == InitEvenOdd /\ [][NextEvenOdd]_vars

EdgeWindows == UNION {[1..n -> EvenValues] : n \in WindowSize..MaxWindow}

InitEdges ==
    /\ IdleExceptManip
    /\ mkind = "MeanOverWindowEdges"
    /\ malpha \in 0..MaxAlpha
    /\ mwindow \in EdgeWindows
    /\ mbit \in Bits
    /\ mout = 0
    /\ mphase = "start"

\* MeanOverWindowEdgesBitManipulator.embed(window, bit)
EdgesEmbed ==
    /\ mphase = "start"
    /\ mwindow' = MeanOverWindowEdgesBitManipulatorEmbed(mwindow, mbit, malpha)
    /\ mphase' = "embedded"
    /\ UNCHANGED <<mbit, mout, mkind, malpha>>
    /\ UNCHANGED notManip

\* MeanOverWindowEdgesBitManipulator.extract(window)
EdgesExtract ==
    /\ mphase = "embedded"
    /\ mout' = MeanOverWindowEdgesBitManipulatorExtract(mwindow)
    /\ mphase' = "extracted"
    /\ UNCHANGED <<mwindow, mbit, mkind, malpha>>
    /\ UNCHANGED notManip

NextEdges == EdgesEmbed \/ EdgesExtract

SpecEdges == InitEdges /\ [][NextEdges]_vars

(* RobustnessEmphasis over the groups of one window position: embed reads  *)
(* one bit and stores it in every group, the groups are degraded, extract  *)
(* writes the bit the majority of the groups yields.  The groups are       *)
(* windows of WindowMedianBitManipulator.                                  *)

GroupWindows == [1..WindowSize -> 0..1]

InitVote ==
    /\ IdleExceptManip
    /\ mkind = "RobustnessEmphasis"
    /\ malpha = 0
    /\ mwindow \in UNION {[1..n -> GroupWindows] : n \in 1..MaxGroups}
    /\ mbit \in Bits
    /\ mout = 0
    /\ mphase = "start"

\* RobustnessEmphasis.embed(domains, reader), the reader holding the bit
VoteEmbed ==
    /\ mphase = "start"
    /\ mwindow' = RobustnessEmphasisEmbed(mwindow, <<mbit>>, 0).domains
    /\ mphase' = "embedded"
    /\ UNCHANGED <<mbit, mout, mkind, malpha>>
    /\ UNCHANGED notManip

\* a degradation between the two runs replaces one group by any window
VoteDegrade ==
    /\ mphase = "embedded"
    /\ \E k \in 1..Len(mwindow) : \E w \in GroupWindows :
          mwindow' = [mwindow EXCEPT ![k] = w]
    /\ UNCHANGED <<mbit, mout, mphase, mkind, malpha>>
    /\ UNCHANGED notManip

\* RobustnessEmphasis.extract(domains, writer, quantity)
VoteExtract ==
    /\ mphase = "embedded"
    /\ mout' = RobustnessEmphasisExtract(mwindow, <<>>, 1).wbuffer[1]
    /\ mphase' = "extracted"
    /\ UNCHANGED <<mwindow, mbit, mkind, malpha>>
    /\ UNCHANGED notManip

NextVote == VoteEmbed \/ VoteDegrade \/ VoteExtract

SpecVote == InitVote /\ [][NextVote]_vars

(* A bit file: either the caller writes bits with BitFileWriter, flushes   *)
(* and closes, or the file is given; then a BitFileReader reads it,        *)
(* calling available() before each read_bit().                             *)

BytePool == {0, 1, 128, 165, 255}

InitFile ==
    /\ IdleExceptFile
    /\ \/ /\ fmode = "written"
          /\ fin \in SeqsUpTo(Bits, MaxFileBits)
          /\ ffile = <<>>
          /\ fphase = "write"
       \/ /\ fmode = "given"
          /\ fin = <<>>
          /\ ffile \in SeqsUpTo(BytePool, MaxBytes)
          /\ fphase = "read"
    /\ fw = BitFileWriterInit
    /\ fr = BitFileReaderInit
    /\ fout = <<>>
    /\ favail = "none"

\* writer.write_bit(bit) for the next bit of the caller
FileWriteBit ==
    /\ fphase = "write"
    /\ fw.n < Len(fin)
    /\ LET u == BitFileWriterWriteBit(fw, ffile, fin[fw.n + 1])
       IN  fw' = u.w /\ ffile' = u.file
    /\ UNCHANGED <<fin, fmode, fr, fout, favail, fphase>>
    /\ UNCHANGED notFile

\* WatermarkBitWriter.__exit__: flush() and close(); the partial byte in
\* buffer is not written.  Then BitFileReader(path).
FileClose ==
    /\ fphase = "write"
    /\ fw.n = Len(fin)
    /\ fphase' = "read"
    /\ fr' = BitFileReaderInit
    /\ UNCHANGED <<fin, fmode, fw, ffile, fout, favail>>
    /\ UNCHANGED notFile

\* reader.available()
FileAvailable ==
    /\ fphase = "read"
    /\ LET u == BitFileReaderAvailable(fr, ffile)
       IN  fr' = u.r /\ favail' = (IF u.result THEN "true" ELSE "false")
    /\ UNCHANGED <<fin, fmode, fw, ffile, fout, fphase>>
    /\ UNCHANGED notFile

\* reader.read_bit(), after available() returned true
FileReadBit ==
    /\ fphase = "read"
    /\ favail = "true"
    /\ LET u == BitFileReaderReadBit(fr, ffile)
       IN  fr' = u.r /\ fout' = Append(fout, u.bit)
    /\ favail' = "none"
    /\ UNCHANGED <<fin, fmode, fw, ffile, fphase>>
    /\ UNCHANGED notFile

NextFile == FileWriteBit \/ FileClose \/ FileAvailable \/ FileReadBit

SpecFile == InitFile /\ [][NextFile]_vars

(* A black-and-white image: the caller writes bits with BWImageWriter of   *)
(* some width and leaves its scope (flush); then a BWImageReader of the    *)
(* same width reads the image, calling available() before each read_bit(). *)

InitBW ==
    /\ IdleExceptFile
    /\ fmode = "bw"
    /\ fin \in SeqsUpTo(Bits, MaxBits)
    /\ fw \in {[buffer |-> <<>>, width |-> w] : w \in 1..MaxWidth}
    /\ ffile = <<>>
    /\ fr = [buffer |-> <<>>, current |-> 0]
    /\ fout = <<>>
    /\ favail = "none"
    /\ fphase = "write"

\* writer.write_bit(bit) for the next bit of the caller
BWWriteBit ==
    /\ fphase = "write"
    /\ Len(fw.buffer) < Len(fin)
    /\ fw' = [fw EXCEPT !.buffer = BWImageWriterWriteBit(@, fin[Len(@) + 1])]
    /\ UNCHANGED <<fin, fmode, ffile, fr, fout, favail, fphase>>
    /\ UNCHANGED notFile

\* WatermarkBitWriter.__exit__: flush() writes the image, or raises; then
\* BWImageReader(path, width) loads it
BWFlush ==
    /\ fphase = "write"
    /\ Len(fw.buffer) = Len(fin)
    /\ IF BWImageWriterFlushRaises(fw.buffer, fw.width)
       THEN /\ fphase' = "failed"
            /\ UNCHANGED <<ffile, fr>>
       ELSE /\ fphase' = "read"
            /\ ffile' = BWImageWriterBuffer2Bw(fw.buffer, fw.width)
            /\ fr' = [buffer |-> BWImageReaderImage2Bin(ffile', fw.width),
                      current |-> 0]
    /\ UNCHANGED <<fin, fmode, fw, fout, favail>>
    /\ UNCHANGED notFile

\* reader.available()
BWAvailable ==
    /\ fphase = "read"
    /\ favail' = (IF BWImageReaderAvailable(fr.buffer, fr.current)
                  THEN "true" ELSE "false")
    /\ UNCHANGED <<fin, fmode, fw, ffile, fr, fout, fphase>>
    /\ UNCHANGED notFile

\* reader.read_bit(), after available() returned true
BWReadBit ==
    /\ fphase = "read"
    /\ favail = "true"
    /\ fout' = Append(fout, BWImageReaderReadBit(fr.buffer, fr.current))
    /\ fr' = [fr EXCEPT !.current = @ + 1]
    /\ favail' = "none"
    /\ UNCHANGED <<fin, fmode, fw, ffile, fphase>>
    /\ UNCHANGED notFile

NextBW == BWWriteBit \/ BWFlush \/ BWAvailable \/ BWReadBit

SpecBW == InitBW /\ [][NextBW]_vars

-----------------------------------------------------------------------------
(* Any watermark reader used by a caller that may call available() as     *)
(* often as it likes and calls read_bit() only when the last available()  *)
(* returned true.  fmode is the reader's class, fw the arguments of a     *)
(* generator, fin the bits Random(seed) yields, ffile the bytes of a file. *)

Generators == {"ConstantBitReader", "RandomBitReader"}

\* reader.available(): the reader after the call and what it returned
ReaderAvailableOf(kind, r, file) ==
    CASE kind \in Generators -> [r |-> r, result |-> WatermarkBitGeneratorAvailable(r)]
      [] kind = "BitFileReader" -> BitFileReaderAvailable(r, file)
      [] kind = "BWImageReader" ->
            [r |-> r, result |-> BWImageReaderAvailable(r.buffer, r.current)]

\* reader.read_bit(): the reader after the call and the bit
ReaderReadBitOf(kind, r, file, stream) ==
    CASE kind = "ConstantBitReader" -> ConstantBitReaderReadBit(r)
      [] kind = "RandomBitReader" -> RandomBitReaderReadBit(r, stream)
      [] kind = "BitFileReader" -> BitFileReaderReadBit(r, file)
      [] kind = "BWImageReader" ->
            [r |-> [r EXCEPT !.current = @ + 1],
             bit |-> BWImageReaderReadBit(r.buffer, r.current)]

GeneratorArguments ==
    [sized : {TRUE}, size : 0..MaxBits, bit : 0..2]
    \cup [sized : {FALSE}, size : {0}, bit : 0..2]

InitReader ==
    /\ IdleExceptFile
    /\ fphase = "read"
    /\ fout = <<>>
    /\ favail = "none"
    /\ \/ /\ fmode = "ConstantBitReader"
          /\ fw \in GeneratorArguments
          /\ fin = <<>> /\ ffile = <<>>
          /\ fr = WatermarkBitGeneratorInit(fw)
       \/ /\ fmode = "RandomBitReader"
          /\ fw \in {a \in GeneratorArguments : a.bit = 0}
          /\ fin \in [1..MaxReads -> Bits] /\ ffile = <<>>
          /\ fr = WatermarkBitGeneratorInit(fw)
       \/ /\ fmode = "BitFileReader"
          /\ fw = BitFileWriterInit
          /\ fin = <<>> /\ ffile \in SeqsUpTo(BytePool, MaxBytes)
          /\ fr = BitFileReaderInit
       \/ /\ fmode = "BWImageReader"
          /\ fw = BitFileWriterInit
          /\ fin = <<>> /\ ffile = <<>>
          /\ fr \in {[buffer |-> b, current |-> 0] : b \in Watermarks}

\* reader.available(), at any time
ReaderCallAvailable ==
    /\ fphase = "read"
    /\ LET u == ReaderAvailableOf(fmode, fr, ffile)
       IN  fr' = u.r /\ favail' = (IF u.result THEN "true" ELSE "false")
    /\ UNCHANGED <<fin, fmode, fw, ffile, fout, fphase>>
    /\ UNCHANGED notFile

\* reader.read_bit(), after available() returned true; a generator is read
\* MaxReads times at most
ReaderCallReadBit ==
    /\ fphase = "read"
    /\ favail = "true"
    /\ fmode \in Generators => Len(fout) < MaxReads
    /\ LET u == ReaderReadBitOf(fmode, fr, ffile, fin)
       IN  fr' = u.r /\ fout' = Append(fout, u.bit)
    /\ favail' = "none"
    /\ UNCHANGED <<fin, fmode, fw, ffile, fphase>>
    /\ UNCHANGED notFile

NextReader == ReaderCallAvailable \/ ReaderCallReadBit

SpecReader == InitReader /\ [][NextReader]_vars

(* A call of shape2shape on positive dimensions.                           *)

Dimensions == (1..MaxDim) \cup {240, 320, 480, 640}

InitShape ==
    /\ IdleExceptShape
    /\ sold \in Dimensions \X Dimensions
    /\ snew \in {NoShape, SwapShape}
                \cup {PairShape(h, w) : h \in {0} \cup Dimensions, w \in {0} \cup Dimensions}
    /\ sres = <<1, 1>>
    /\ sphase = "start"

\* shape2shape(old_shape, new_shape)
ShapeCall ==
    /\ sphase = "start"
    /\ sres' = shape2shape(sold, snew)
    /\ sphase' = "done"
    /\ UNCHANGED <<sold, snew>>
    /\ UNCHANGED notShape

NextShape == ShapeCall

SpecShape == InitShape /\ [][NextShape]_vars

(* Algorithm.embed / Algorithm.extract as the callers run them: the caller *)
(* opens the watermark reader (writer) in a with-scope, the algorithm      *)
(* opens the video tunnel (the video reader) in a with-scope and runs the  *)
(* embedder (extractor) inside.  The run itself is one step here: it       *)
(* returns statistics or raises.  OpenCV does not raise when a video       *)
(* cannot be opened: cv2.VideoCapture and cv2.VideoWriter return a handle  *)
(* that is not opened, read() of it returns (False, None), write() on it   *)
(* does nothing, and the frame count it reports is 0.                      *)

InitScope ==
    /\ IdleExceptScope
    /\ cin \in [op : {"embed", "extract"}, src_ok : BOOLEAN, dst_ok : BOOLEAN,
                wm_ok : BOOLEAN, wm_type : {"bit-file", "bw-image"},
                frames : 0..MaxFrames, run_fault : BOOLEAN,
                release_fault : {"none", "reader", "writer"}]
    /\ cpc = "start"
    /\ ch = NoHandles
    /\ cres = NoResult

\* the watermark file cannot be opened and the constructor finds out:
\* open() in BitFileReader / BitFileWriter raises, cv2.imread returns None
\* and BWImageReader._image2bin raises on it; BWImageWriter.__init__ opens
\* nothing
WatermarkOpenRaises ==
    ~cin.wm_ok /\ ~(cin.op = "extract" /\ cin.wm_type = "bw-image")

\* report/brute.py: with watermark_holder.reader() / .writer(path) as ...
ScopeOpenWatermark ==
    /\ cpc = "start"
    /\ IF WatermarkOpenRaises
       THEN /\ cpc' = "raised"
            /\ cres' = [cres EXCEPT !.exc = "open_watermark"]
            /\ ch' = [ch EXCEPT !.opens = @ + 1]
       ELSE /\ cpc' = "construct"
            /\ ch' = [ch EXCEPT !.watermark = "open", !.opens = @ + 1]
            /\ UNCHANGED cres
    /\ UNCHANGED cin
    /\ UNCHANGED notScope

\* VideoTunnel.__init__ (embed) or VideoReader.__init__ (extract): neither
\* looks at whether the handle is opened
ScopeConstruct ==
    /\ cpc = "construct"
    /\ ch' = [ch EXCEPT
                !.reader = IF cin.src_ok THEN "open" ELSE "unopened",
                !.writer = IF cin.op = "extract" THEN "none"
                           ELSE IF cin.src_ok /\ cin.dst_ok THEN "open" ELSE "unopened",
                !.opens = @ + 1]
    /\ cpc' = "run"
    /\ UNCHANGED <<cin, cres>>
    /\ UNCHANGED notScope

\* the frames the run sees: an unopened capture yields none
ScopeFrames == IF ch.reader = "open" THEN cin.frames ELSE 0

\* embedder.embed(kit) / extractor.extract(reader, writer, quantity): the run
\* returns its statistics, or raises after the error notification
ScopeRun ==
    /\ cpc = "run"
    /\ cres' = IF cin.run_fault
               THEN [cres EXCEPT !.exc = "run"]
               ELSE [cres EXCEPT !.stats = <<[frames |-> ScopeFrames]>>]
    /\ cpc' = "exit"
    /\ UNCHANGED <<cin, ch>>
    /\ UNCHANGED notScope

\* VideoTunnel.close: self.reader.close(); self.writer.release()
VideoTunnelClose(h, fault) ==
    IF fault = "reader" THEN [h EXCEPT !.reader_release = "raised"]
    ELSE IF fault = "writer"
    THEN [h EXCEPT !.reader_release = "done", !.writer_release = "raised"]
    ELSE [h EXCEPT !.reader_release = "done", !.writer_release = "done"]

\* VideoReader.close: self.video.release()
VideoReaderClose(h, fault) ==
    IF fault = "reader" THEN [h EXCEPT !.reader_release = "raised"]
    ELSE [h EXCEPT !.reader_release = "done"]

\* AutoCloseable.__exit__: self.close(); an exception of close() replaces the
\* result and the exception of the run
ScopeExit ==
    /\ cpc = "exit"
    /\ ch' = IF cin.op = "embed" THEN VideoTunnelClose(ch, cin.release_fault)
             ELSE VideoReaderClose(ch, cin.release_fault)
    /\ cres' = IF "raised" \in {ch'.reader_release, ch'.writer_release}
               THEN [stats |-> <<>>, exc |-> "release"]
               ELSE cres
    /\ cpc' = "wmexit"
    /\ UNCHANGED cin
    /\ UNCHANGED notScope

\* the caller's with-scope ends: the reader is closed; the writer is flushed
\* and closed (cv2.imwrite of BWImageWriter.flush returns False, without
\* raising, when the file cannot be written)
ScopeWatermarkExit ==
    /\ cpc = "wmexit"
    /\ ch' = [ch EXCEPT !.watermark = "closed"]
    /\ cpc' = IF cres.exc = NoExc THEN "returned" ELSE "raised"
    /\ UNCHANGED <<cin, cres>>
    /\ UNCHANGED notScope

NextScope ==
    ScopeOpenWatermark \/ ScopeConstruct \/ ScopeRun \/ ScopeExit \/ ScopeWatermarkExit

SpecScope == InitScope /\ [][NextScope]_vars

-----------------------------------------------------------------------------
(* The calls an embedding run makes on the watermark reader: the control   *)
(* flow of WatermarkEmbedder._embed, of Method.embed of the three Methods  *)
(* and of the two Emphasis submethods, one action per reader call or loop  *)
(* decision.  The reader holds wmlen bits and has returned current.        *)

\* len(range(start, stop, step)) for step > 0
RangeLen(start, stop, step) ==
    IF stop > start THEN (stop - start + step - 1) \div step ELSE 0

\* EvenOddDifferential._find_boundaries; offset and area are halves
FindBoundaries(in) ==
    LET start == (in.offset2 * in.size) \div 2
    IN  [start |-> start,
         end |-> Min2(start + (in.area2 * in.size) \div 2, in.size)]

\* the loops taken up to the size, a last incomplete window included
PositionsToTheEnd(in) ==
    CASE in.method = "WindowMedian" ->
            in.rows * RangeLen(0, in.size, in.window_size)
      [] in.method = "EvenOddDifferential" ->
            RangeLen(FindBoundaries(in).start, FindBoundaries(in).end, in.repeats)
      [] in.method = "MeanOverWindowEdges" ->
            RangeLen(0, in.size, in.window_size)

\* how many times the loop of Method.embed can run on one frame's domain
Positions(in) ==
    CASE in.method = "WindowMedian" ->
            in.rows * RangeLen(0, in.size - (in.window_size - 1), in.window_size)
      [] in.method = "EvenOddDifferential" ->
            RangeLen(FindBoundaries(in).start,
                     FindBoundaries(in).end - (in.repeats - 1), in.repeats)
      [] in.method = "MeanOverWindowEdges" ->
            RangeLen(0, in.size - (in.window_size - 1), in.window_size)

\* reader.available()
ReaderAvailable(in, st) == st.current < in.wmlen

CallAvailable(in, st, calls) ==
    Append(calls, [op |-> "available", ok |-> ReaderAvailable(in, st)])

\* reader.read_bit(); ok records whether the reader still had a bit
CallReadBit(in, st, calls) ==
    Append(calls, [op |-> "read_bit", ok |-> ReaderAvailable(in, st)])

\* _embed, line 94: if not embedding_kit.workable(): copy and return
EmbedEntry(in, st, calls) ==
    [pc |-> IF ReaderAvailable(in, st) THEN "while" ELSE "done",
     st |-> st,
     calls |-> CallAvailable(in, st, calls)]

\* _embed, line 100: while success and embedding_kit.workable()
EmbedWhile(in, st, calls) ==
    IF ~st.success
    THEN [pc |-> "after", st |-> st, calls |-> calls]
    ELSE [pc |-> IF ReaderAvailable(in, st) THEN "transfer" ELSE "after",
          st |-> st,
          calls |-> CallAvailable(in, st, calls)]

\* VideoTunnel.transfer: read a frame; none left gives success False,
\* else the frame goes to handle() and Method.embed starts on its domain
EmbedTransfer(in, st, calls) ==
    IF st.frame >= in.frames
    THEN [pc |-> "while", st |-> [st EXCEPT !.success = FALSE], calls |-> calls]
    ELSE [pc |-> "method",
          st |-> [st EXCEPT !.frame = @ + 1, !.pos = 0, !.grp = 0],
          calls |-> calls]

\* the loop of Method.embed entering the submethod with no check
MethodLoopHeadUnchecked(in, st, calls) ==
    IF st.pos >= Positions(in)
    THEN [pc |-> "while", st |-> st, calls |-> calls]
    ELSE [pc |-> "sub", st |-> st, calls |-> calls]

\* the loop of Method.embed: past the last window it returns; else
\* if not watermark_reader.available(): return / break
MethodLoopHead(in, st, calls) ==
    IF st.pos >= Positions(in)
    THEN [pc |-> "while", st |-> st, calls |-> calls]
    ELSE [pc |-> IF ReaderAvailable(in, st) THEN "sub" ELSE "while",
          st |-> st,
          calls |-> CallAvailable(in, st, calls)]

\* RobustnessEmphasis.embed: one read_bit for all the groups
RobustnessEmphasisCalls(in, st, calls) ==
    [pc |-> "method",
     st |-> [st EXCEPT !.current = @ + 1, !.pos = @ + 1],
     calls |-> CallReadBit(in, st, calls)]

\* CapacityEmphasis.embed, the loop over the groups: past the last it
\* returns; else if not watermark_reader.available(): break
CapacityEmphasisLoopHead(in, st, calls) ==
    IF st.grp >= in.groups
    THEN [pc |-> "method", st |-> [st EXCEPT !.pos = @ + 1, !.grp = 0],
          calls |-> calls]
    ELSE IF ReaderAvailable(in, st)
         THEN [pc |-> "read", st |-> st, calls |-> CallAvailable(in, st, calls)]
         ELSE [pc |-> "method", st |-> [st EXCEPT !.pos = @ + 1, !.grp = 0],
               calls |-> CallAvailable(in, st, calls)]

\* CapacityEmphasis.embed: bit = watermark_reader.read_bit()
CapacityEmphasisRead(in, st, calls) ==
    [pc |-> "sub",
     st |-> [st EXCEPT !.current = @ + 1, !.grp = @ + 1],
     calls |-> CallReadBit(in, st, calls)]

\* _embed, line 110: full_watermark = not embedding_kit.workable()
EmbedAfter(in, st, calls) ==
    [pc |-> "done", st |-> st, calls |-> CallAvailable(in, st, calls)]

CallSizes ==
    [wmlen : 0..MaxBits, frames : 0..MaxFrames, groups : 1..MaxGroups,
     emphasis : {"RobustnessEmphasis", "CapacityEmphasis"}]

CallInput(method, sz, rows, size, window_size, repeats, offset2, area2) ==
    [method |-> method, emphasis |-> sz.emphasis, wmlen |-> sz.wmlen,
     frames |-> sz.frames, groups |-> sz.groups, rows |-> rows, size |-> size,
     window_size |-> window_size, repeats |-> repeats, offset2 |-> offset2,
     area2 |-> area2]

Halves == {0, 1, 2}

CallInputs ==
    {CallInput("WindowMedian", sz, rows, size, ws, 1, 0, 0) :
        sz \in CallSizes, rows \in 1..MaxRows, size \in 1..MaxSize,
        ws \in WindowSize..MaxWindow}
    \cup
    {CallInput("EvenOddDifferential", sz, 1, size, WindowSize, repeats, o, a) :
        sz \in CallSizes, size \in 1..MaxSize, repeats \in 1..MaxRepeats,
        o \in Halves, a \in Halves}
    \cup
    {CallInput("MeanOverWindowEdges", sz, 1, size, ws, 1, 0, 0) :
        sz \in CallSizes, size \in 1..MaxSize, ws \in WindowSize..MaxWindow}

InitCall ==
    /\ IdleExceptCall
    /\ qin \in CallInputs
    /\ qpc = "entry"
    /\ qst = CallStart
    /\ qcalls = <<>>

CallStep(u) ==
    /\ qpc' = u.pc
    /\ qst' = u.st
    /\ qcalls' = u.calls
    /\ UNCHANGED qin
    /\ UNCHANGED notCall

CallEntry == qpc = "entry" /\ CallStep(EmbedEntry(qin, qst, qcalls))

CallWhile == qpc = "while" /\ CallStep(EmbedWhile(qin, qst, qcalls))

CallTransfer == qpc = "transfer" /\ CallStep(EmbedTransfer(qin, qst, qcalls))

CallMethod == qpc = "method" /\ CallStep(MethodLoopHead(qin, qst, qcalls))

CallRobustness ==
    /\ qpc = "sub"
    /\ qin.emphasis = "RobustnessEmphasis"
    /\ CallStep(RobustnessEmphasisCalls(qin, qst, qcalls))

CallCapacity ==
    /\ qpc = "sub"
    /\ qin.emphasis = "CapacityEmphasis"
    /\ CallStep(CapacityEmphasisLoopHead(qin, qst, qcalls))

CallCapacityRead == qpc = "read" /\ CallStep(CapacityEmphasisRead(qin, qst, qcalls))

CallAfter == qpc = "after" /\ CallStep(EmbedAfter(qin, qst, qcalls))

NextCall ==
    \/ CallEntry
    \/ CallWhile
    \/ CallTransfer
    \/ CallMethod
    \/ CallRobustness
    \/ CallCapacity
    \/ CallCapacityRead
    \/ CallAfter

SpecCall == InitCall /\ [][NextCall]_vars

-----------------------------------------------------------------------------
(* One call of Method.embed on a domain with a reader of wmlen bits, then  *)
(* one call of Method.extract on the same domain with a quantity: which    *)
(* groups of coefficients each visits, which bits it reads or writes, and  *)
(* the count it returns.  One action per iteration of the Method's loop.   *)

\* more bits than any domain of the bounded shapes can hold
Plenty == MaxRows * MaxSize * MaxGroups + 1

\* the elements a window takes: window_size, or repeats
WindowWidth(in) ==
    IF in.method = "EvenOddDifferential" THEN in.repeats ELSE in.window_size

\* the slice of the pos-th iteration (0-based): r[j : j + window_size] of
\* row r, domain[:, :, i : i + repeats] or domain[:, i : i + window_size];
\* a slice stops at the end of the axis
WindowAt(in, pos) ==
    LET perRow == IF in.method = "WindowMedian" THEN Positions(in) \div in.rows
                  ELSE Positions(in)
        first == IF in.method = "EvenOddDifferential"
                 THEN FindBoundaries(in).start ELSE 0
        lo == first + (pos % perRow) * WindowWidth(in)
    IN  [row |-> pos \div perRow,
         lo |-> lo,
         hi |-> Min2(lo + WindowWidth(in), in.size) - 1]

ReadBitCall == [op |-> "read_bit"]
WriteBitCall == [op |-> "write_bit"]
GroupCall(w, g) == [op |-> "group", window |-> w, grp |-> g]

GroupCalls(w, n) == [g \in 1..n |-> GroupCall(w, g)]

\* RobustnessEmphasis.embed: one read_bit, embedded into every group
RobustnessEmphasisEmbedGroups(in, w, current) ==
    [current |-> current + 1,
     log |-> <<ReadBitCall>> \o GroupCalls(w, in.groups),
     amount |-> 1]

\* CapacityEmphasis.embed: for each group, break when the reader has no
\* bit, else read_bit and embed it into the group
RECURSIVE CapacityEmphasisEmbedGroups(_, _, _, _, _)
CapacityEmphasisEmbedGroups(in, w, g, current, log) ==
    IF g > in.groups \/ ~(current < in.wmlen)
    THEN [current |-> current, log |-> log, amount |-> g - 1]
    ELSE CapacityEmphasisEmbedGroups(in, w, g + 1, current + 1,
            log \o <<ReadBitCall, GroupCall(w, g)>>)

SubmethodEmbedGroups(in, w, current) ==
    IF in.emphasis = "RobustnessEmphasis"
    THEN RobustnessEmphasisEmbedGroups(in, w, current)
    ELSE CapacityEmphasisEmbedGroups(in, w, 1, current, <<>>)

\* the vote written once and counted once for each group
RobustnessEmphasisExtractGroupsEach(in, w, quantity) ==
    [quantity |-> quantity,
     log |-> GroupCalls(w, in.groups) \o <<WriteBitCall>>,
     amount |-> in.groups]

\* RobustnessEmphasis.extract: every group is extracted, one write_bit
RobustnessEmphasisExtractGroups(in, w, quantity) ==
    [quantity |-> quantity,
     log |-> GroupCalls(w, in.groups) \o <<WriteBitCall>>,
     amount |-> 1]

\* CapacityEmphasis.extract: for each group, break when quantity < 1, else
\* extract the group, write_bit, quantity -= 1
RECURSIVE CapacityEmphasisExtractGroups(_, _, _, _, _)
CapacityEmphasisExtractGroups(in, w, g, quantity, log) ==
    IF g > in.groups \/ quantity < 1
    THEN [quantity |-> quantity, log |-> log, amount |-> g - 1]
    ELSE CapacityEmphasisExtractGroups(in, w, g + 1, quantity - 1,
            log \o <<GroupCall(w, g), WriteBitCall>>)

SubmethodExtractGroups(in, w, quantity) ==
    IF in.emphasis = "RobustnessEmphasis"
    THEN RobustnessEmphasisExtractGroups(in, w, quantity)
    ELSE CapacityEmphasisExtractGroups(in, w, 1, quantity, <<>>)

\* one iteration of the loop of Method.embed, or its return
MethodEmbedIteration(in, st, log) ==
    IF st.pos >= Positions(in) \/ ~(st.current < in.wmlen)
    THEN [pc |-> "embedded", st |-> st, log |-> log]
    ELSE LET u == SubmethodEmbedGroups(in, WindowAt(in, st.pos), st.current)
         IN  [pc |-> "embed",
              st |-> [st EXCEPT !.current = u.current, !.pos = @ + 1,
                                !.embedded = @ + u.amount],
              log |-> [log EXCEPT !.embed = @ \o u.log]]

\* one iteration of the loop of Method.extract, or its return; the
\* submethod does not change the Method's quantity, amount is subtracted
MethodExtractIteration(in, st, log) ==
    IF st.pos >= Positions(in) \/ st.quantity < 1
    THEN [pc |-> "extracted", st |-> st, log |-> log]
    ELSE LET u == SubmethodExtractGroups(in, WindowAt(in, st.pos), st.quantity)
         IN  [pc |-> "extract",
              st |-> [st EXCEPT !.pos = @ + 1, !.quantity = @ - u.amount,
                                !.extracted = @ + u.amount],
              log |-> [log EXCEPT !.extract = @ \o u.log]]

Lengths == (0..MaxBits) \cup {Plenty}

Quantities == ((0 - 1)..MaxBits) \cup {Plenty}

MethodInputs ==
    {[in EXCEPT !.wmlen = n] :
        in \in {c \in CallInputs : c.frames = 0 /\ c.wmlen = 0}, n \in Lengths}

MethodStart(quantity) ==
    [current |-> 0, pos |-> 0, embedded |-> 0, asked |-> quantity,
     quantity |-> quantity, extracted |-> 0]

InitMethod ==
    /\ IdleExceptCall
    /\ qin \in MethodInputs
    /\ qpc = "embed"
    /\ qst \in {MethodStart(q) : q \in Quantities}
    /\ qcalls = [embed |-> <<>>, extract |-> <<>>]

MethodStep(u) ==
    /\ qpc' = u.pc
    /\ qst' = u.st
    /\ qcalls' = u.log
    /\ UNCHANGED qin
    /\ UNCHANGED notCall

\* method.embed(domain, watermark_reader), one iteration at a time
MethodEmbed == qpc = "embed" /\ MethodStep(MethodEmbedIteration(qin, qst, qcalls))

\* method.extract(domain, watermark_writer, quantity) is called
MethodExtractCall ==
    /\ qpc = "embedded"
    /\ MethodStep([pc |-> "extract", st |-> [qst EXCEPT !.pos = 0], log |-> qcalls])

\* method.extract, one iteration at a time
MethodExtract == qpc = "extract" /\ MethodStep(MethodExtractIteration(qin, qst, qcalls))

NextMethod == MethodEmbed \/ MethodExtractCall \/ MethodExtract

SpecMethod == InitMethod /\ [][NextMethod]_vars

-----------------------------------------------------------------------------
(* One WatermarkEmbedder and the embed() calls made on it, each with a     *)
(* kit whose reader holds wmlen bits; a frame takes up to capacity bits.   *)
(* qin is the video, qst the embedder, qcalls what each call did.          *)

\* WatermarkEmbedder.__init__: the statistics object is made here
WatermarkEmbedderInit(in) ==
    [stats |-> EmbeddingStatistics(in.frames), position |-> 0, clock |-> 0,
     cur |-> 0, success |-> TRUE, ncopied |-> 0]

\* _embed lines 99-104: the streaming loop; handle() embeds what the frame
\* holds or what the reader has left
RECURSIVE EmbedStreamLoop(_, _, _)
EmbedStreamLoop(e, in, wmlen) ==
    IF ~(e.success /\ e.cur < wmlen) THEN e
    ELSE IF e.position < in.frames
    THEN EmbedStreamLoop(
            [e EXCEPT !.position = @ + 1,
                      !.cur = @ + Min2(in.capacity, wmlen - e.cur),
                      !.stats.embedded = @ + Min2(in.capacity, wmlen - e.cur)],
            in, wmlen)
    ELSE EmbedStreamLoop([e EXCEPT !.success = FALSE], in, wmlen)

\* self.statistics.copied = self.copy_frames(): the frames left are copied
EmbedCopyFrames(e, in, copying) ==
    IF copying
    THEN [e EXCEPT !.ncopied = in.frames - e.position, !.position = in.frames,
                   !.stats.copied = in.frames - e.position]
    ELSE e

\* _embed lines 109-110
EmbedStampEnd(e, wmlen) ==
    [e EXCEPT !.clock = @ + 1, !.stats.end_time = e.clock + 1,
              !.stats.full_watermark = ~(e.cur < wmlen)]

\* _embed with a fresh reader of wmlen bits
EmbedRun(e, in, wmlen, copying) ==
    LET a == [e EXCEPT !.clock = @ + 1, !.stats.start_time = e.clock + 1,
                       !.cur = 0, !.success = TRUE, !.ncopied = 0]
    IN  IF ~(0 < wmlen) THEN EmbedCopyFrames(a, in, copying)
        ELSE EmbedStampEnd(EmbedCopyFrames(EmbedStreamLoop(a, in, wmlen), in, copying),
                           wmlen)

InitRerun ==
    /\ IdleExceptCall
    /\ qin \in [frames : 0..MaxFrames, capacity : 1..MaxList]
    /\ qpc = "ready"
    /\ qst = WatermarkEmbedderInit(qin)
    /\ qcalls = <<>>

\* embedder.embed(kit, copy) returns
RerunEmbed ==
    /\ qpc = "ready"
    /\ Len(qcalls) < MaxRuns
    /\ \E wmlen \in 0..MaxBits, copying \in BOOLEAN :
          /\ qst' = EmbedRun(qst, qin, wmlen, copying)
          /\ qcalls' = Append(qcalls,
                [wmlen |-> wmlen, copy |-> copying, start |-> qst.stats,
                 read |-> qst'.cur, copied |-> qst'.ncopied, ret |-> qst'.stats])
    /\ UNCHANGED <<qin, qpc>>
    /\ UNCHANGED notCall

NextRerun == RerunEmbed

SpecRerun == InitRerun /\ [][NextRerun]_vars

-----------------------------------------------------------------------------
(* transforms.py EvenOddDecomposition on a 1-D sequence: sold is the       *)
(* sequence, snew what transform returned, sres what restore returned.     *)

\* domain[::2], domain[1::2]
EvenOddDecompositionTransform(domain) ==
    <<[i \in 1..((Len(domain) + 1) \div 2) |-> domain[2 * i - 1]],
      [i \in 1..(Len(domain) \div 2) |-> domain[2 * i]]>>

\* np.vstack((domain[0], domain[1])) raises ValueError when the two rows
\* have different lengths
EvenOddDecompositionRestoreRaises(domain) == Len(domain[1]) # Len(domain[2])

\* np.vstack((domain[0], domain[1])).ravel(order="F"): column by column
EvenOddDecompositionRestore(domain) ==
    [i \in 1..(2 * Len(domain[1])) |->
        IF i % 2 = 1 THEN domain[1][(i + 1) \div 2] ELSE domain[2][i \div 2]]

InitSplit ==
    /\ IdleExceptShape
    /\ sold \in SeqsUpTo(0..MaxVal, MaxSeq)
    /\ snew = <<>>
    /\ sres = <<>>
    /\ sphase = "start"

\* EvenOddDecomposition.transform(domain, memory)
SplitTransform ==
    /\ sphase = "start"
    /\ snew' = EvenOddDecompositionTransform(sold)
    /\ sphase' = "transformed"
    /\ UNCHANGED <<sold, sres>>
    /\ UNCHANGED notShape

\* EvenOddDecomposition.restore(domain, memory) on what transform returned
SplitRestore ==
    /\ sphase = "transformed"
    /\ IF EvenOddDecompositionRestoreRaises(snew)
       THEN sphase' = "raised" /\ UNCHANGED sres
       ELSE sphase' = "restored" /\ sres' = EvenOddDecompositionRestore(snew)
    /\ UNCHANGED <<sold, snew>>
    /\ UNCHANGED notShape

NextSplit == SplitTransform \/ SplitRestore

SpecSplit == InitSplit /\ [][NextSplit]_vars

-----------------------------------------------------------------------------
(* util/base.py Observable.  ch is self.subscribers, a defaultdict(set),   *)
(* as its (key, subscriber) memberships; a key is an event or a tuple of   *)
(* events, and a key with no subscriber is as good as a missing one.       *)
(* cin is what every subscriber has asked for: the (subscriber, event)     *)
(* pairs subscribed and not unsubscribed.  cres is the last notify(): the  *)
(* event, who was updated how often, and who had asked for the event.      *)

ObsEvents == {"BEFORE_EMBEDDING", "AFTER_EMBEDDING"}

ObsSubscribers == {"s1", "s2"}

EventKey(e) == [tuple |-> FALSE, of |-> <<e>>]

TupleKey(es) == [tuple |-> TRUE, of |-> es]

\* Observable.__init__
ObservableInit == [members |-> {}]

\* Observable.subscribe: for e in events: self.subscribers[e].add(subscriber)
ObservableSubscribe(d, subscriber, es) ==
    [members |-> d.members \cup
                 {[key |-> EventKey(es[i]), sub |-> subscriber] : i \in 1..Len(es)}]

\* Observable.unsubscribe_everywhere
ObservableUnsubscribeEverywhere(d, subscriber) ==
    [d EXCEPT !.members = {m \in @ : m.sub # subscriber}]

\* Observable.unsubscribe_events(subscriber, *events): ks is the tuple of
\* its positional arguments after subscriber, each used as a key
ObservableUnsubscribeEvents(d, subscriber, ks) ==
    [members |-> {m \in d.members :
                    ~(m.sub = subscriber /\ \E i \in 1..Len(ks) : m.key = ks[i])}]

\* Observable.unsubscribe(subscriber, *events): events, the tuple, is
\* passed on as one positional argument
ObservableUnsubscribe(d, subscriber, es) ==
    IF es # <<>>
    THEN ObservableUnsubscribeEvents(d, subscriber, <<TupleKey(es)>>)
    ELSE ObservableUnsubscribeEverywhere(d, subscriber)

\* Observable.notify: s.update(event) for s in self.subscribers[event];
\* how many times each subscriber is updated
ObservableNotify(d, e) ==
    [s \in ObsSubscribers |->
        IF [key |-> EventKey(e), sub |-> s] \in d.members THEN 1 ELSE 0]

EventTuples == UNION {[1..n -> ObsEvents] : n \in 1..MaxList}

InitObservable ==
    /\ IdleExceptScope
    /\ cin = {}
    /\ cpc = "observing"
    /\ ch = ObservableInit
    /\ cres = [event |-> "", updated |-> [s \in ObsSubscribers |-> 0],
               asked |-> {}, calls |-> 0]

\* observable.subscribe(s, e1, ..., ek)
ObsSubscribe ==
    /\ cpc = "observing"
    /\ \E sub \in ObsSubscribers, es \in EventTuples :
          /\ ch' = ObservableSubscribe(ch, sub, es)
          /\ cin' = cin \cup {<<sub, es[i]>> : i \in 1..Len(es)}
    /\ UNCHANGED <<cpc, cres>>
    /\ UNCHANGED notScope

\* observable.unsubscribe(s, e1, ..., ek), k >= 0
ObsUnsubscribe ==
    /\ cpc = "observing"
    /\ \E sub \in ObsSubscribers, es \in EventTuples \cup {<<>>} :
          /\ ch' = ObservableUnsubscribe(ch, sub, es)
          /\ cin' = IF es = <<>> THEN {p \in cin : p[1] # sub}
                    ELSE {p \in cin : ~(p[1] = sub /\ \E i \in 1..Len(es) : p[2] = es[i])}
    /\ UNCHANGED <<cpc, cres>>
    /\ UNCHANGED notScope

\* observable.notify(e)
ObsNotify ==
    /\ cpc = "observing"
    /\ \E e \in ObsEvents :
          /\ cres' = [event |-> e, updated |-> ObservableNotify(ch, e),
                      asked |-> {s \in ObsSubscribers : <<s, e>> \in cin},
                      calls |-> 1]
    /\ UNCHANGED <<cin, cpc, ch>>
    /\ UNCHANGED notScope

NextObservable == ObsSubscribe \/ ObsUnsubscribe \/ ObsNotify

SpecObservable == InitObservable /\ [][NextObservable]_vars

-----------------------------------------------------------------------------

Init ==
    /\ video \in Videos
    /\ wm \in Watermarks
    /\ copy \in BOOLEAN
    /\ emphasis \in {"capacity", "robustness"}
    /\ position \in {"hr", "vr"}
    /\ pc = "init"
    /\ rpos = 0
    /\ cur = 0
    /\ success = TRUE
    /\ early = FALSE
    /\ stats = EmbeddingStatistics(Len(video))
    /\ out = <<>>
    /\ handled = 0
    /\ events = <<>>
    /\ clock = 0
    /\ raised = NoExc
    /\ ret = <<>>
    /\ xstats = ExtractingStatistics(0)
    /\ xpos = 0
    /\ xsuccess = FALSE
    /\ written = <<>>
    /\ xret = <<>>
    /\ ncopied = 0
    /\ thrown = NoExc
    /\ xq = 0
    /\ IdleExceptRun

Next ==
    \/ EmbedStart
    \/ EmbedFrame
    \/ CopyFrame
    \/ CopyFramesEnd
    \/ EmbedFinish
    \/ ExtractStart
    \/ ExtractFrame
    \/ ExtractFinish

Spec == Init /\ [][Next]_vars

-----------------------------------------------------------------------------
(* Claims about the run *)

EmbedReturned == ret # <<>>
ExtractReturned == xret # <<>>

\* the number of entries of a sequence that satisfy a test
CountEvents(evs, name) == Cardinality({i \in 1..Len(evs) : evs[i].ev = name})
CountCopied(o) == Cardinality({i \in 1..Len(o) : ~o[i].kit})

SameEmbeddingFields(a, b) ==
    /\ a.total_frames = b.total_frames /\ a.embedded = b.embedded
    /\ a.copied = b.copied /\ a.full_watermark = b.full_watermark
    /\ a.start_time = b.start_time /\ a.end_time = b.end_time

SameExtractingFields(a, b) ==
    /\ a.left = b.left /\ a.extracted = b.extracted
    /\ a.start_time = b.start_time /\ a.end_time = b.end_time

IsSnapshotEvent(e, name) == e.ev = name /\ "statistics" \in DOMAIN e.kw

\* C1: when every bit of the watermark B was embedded (B fits the capacity of
\* the frames) and the extraction of len(B) bits from the written frames
\* returned, the bits written by the extraction are exactly B, in order.
C1_RoundTrip ==
    (pc = "xdone" /\ EmbedReturned /\ cur = Len(wm) /\ xq = Len(wm)) => written = wm

\* C2: when embed() has returned, full_watermark is true exactly when the
\* watermark reader has no bit available.
C2_FullWatermarkIffExhausted ==
    EmbedReturned => (ret[1].full_watermark <=> ~Workable(wm, cur))

\* C3: a run that returned has stamped end_time, and the last notification it
\* delivered is the terminal event carrying a separate copy of the returned
\* statistics with equal fields.
C3_TerminalSnapshot ==
    /\ (pc = "done" /\ EmbedReturned) =>
          /\ ret[1].end_time > 0
          /\ IsSnapshotEvent(events[Len(events)], "AFTER_EMBEDDING")
          /\ events[Len(events)].kw.statistics.oid # ret[1].oid
          /\ SameEmbeddingFields(events[Len(events)].kw.statistics, ret[1])
    /\ (pc = "xdone" /\ ExtractReturned) =>
          /\ xret[1].end_time > 0
          /\ IsSnapshotEvent(events[Len(events)], "AFTER_EXTRACTING")
          /\ events[Len(events)].kw.statistics.oid # xret[1].oid
          /\ SameExtractingFields(events[Len(events)].kw.statistics, xret[1])

\* C4: when a step of the run raised an exception, the error event was
\* notified exactly once, as the last notification, carrying that exception;
\* the same exception left embed() / extract(), and nothing was returned.
C4_ErrorNotifiedAndReraised ==
    /\ (pc = "raised") =>
          /\ thrown # NoExc
          /\ CountEvents(events, "ERROR_EMBEDDING") = 1
          /\ events[Len(events)].ev = "ERROR_EMBEDDING"
          /\ events[Len(events)].kw.exception = thrown
          /\ raised = thrown
          /\ ret = <<>>
    /\ (pc = "xraised") =>
          /\ thrown # NoExc
          /\ CountEvents(events, "ERROR_EXTRACTING") = 1
          /\ events[Len(events)].ev = "ERROR_EXTRACTING"
          /\ events[Len(events)].kw.exception = thrown
          /\ raised = thrown
          /\ xret = <<>>
    /\ (thrown # NoExc) => pc \in {"raised", "xraised"}
    /\ (pc \notin {"raised", "xraised"}) =>
          /\ raised = NoExc
          /\ CountEvents(events, "ERROR_EMBEDDING") = 0
          /\ CountEvents(events, "ERROR_EXTRACTING") = 0

C4_Witness ==
    \/ pc = "raised" /\ thrown = "restore" /\ handled = 2
    \/ pc = "raised" /\ thrown = "write" /\ ncopied = 1

C6_FrameAccounting ==
    EmbedReturned =>
        /\ ret[1].copied = CountCopied(out)
        /\ frames_with_watermark(ret[1]) = handled
        /\ ret[1].copied + frames_with_watermark(ret[1]) = ret[1].total_frames

\* C7: when embed() with copy enabled has returned, the output holds one frame
\* per input frame in input order: first the frames handled by the kit, then
\* the remaining frames unmodified; copy_frames returned the number it wrote.
C7_FrameConservation ==
    (EmbedReturned /\ copy) =>
        /\ Len(out) = Len(video)
        /\ \A i \in 1..Len(out) :
              /\ out[i].src = i
              /\ out[i].kit <=> (i <= handled)
              /\ ~out[i].kit => out[i].data = video[i]
        /\ ret[1].copied = CountCopied(out)
        /\ ncopied = CountCopied(out)

C7_Witness ==
    /\ EmbedReturned /\ copy /\ pc = "done"
    /\ Len(video) = 2 /\ handled = 1 /\ ncopied = 1 /\ cur = Len(wm) /\ Len(wm) > 0

-----------------------------------------------------------------------------
(* Claims about Pipe and Every *)

ElementTransform(k) ==
    PipeTransformLoop(ptree.ts, 1, Res(pin.args[k], <<>>, TRUE, TRUE), <<>>, <<k>>)

ElementRestore(k) ==
    PipeRestoreLoop(ptree.ts, Len(ptree.ts),
                    Res(pmid.args[k], ElementTransform(k).mem, TRUE, TRUE), <<>>, <<k>>)

\* C9: Every keeps the order of the elements in both directions: element k of
\* what Every.transform returns is the transformation of element k of the
\* input, and element k of what Every.restore returns is the restoration of
\* element k of its input (so the original element k), for lists of any
\* length from 0 and for an Every nested in an Every.
C9_EveryPreservesOrder ==
    ptree.kind = "every" =>
        /\ pphase \in {"transformed", "restored"} =>
              /\ pmid.op = "list"
              /\ Len(pmid.args) = Len(pin.args)
              /\ \A k \in 1..Len(pin.args) : pmid.args[k] = ElementTransform(k).dom
        /\ pphase = "restored" =>
              /\ pdom.op = "list"
              /\ Len(pdom.args) = Len(pin.args)
              /\ \A k \in 1..Len(pin.args) :
                    /\ pdom.args[k] = ElementRestore(k).dom
                    /\ pdom.args[k] = pin.args[k]

\* an Every nested in an Every has been transformed and restored over two
\* lists of two arrays
C9_Witness ==
    /\ pphase = "restored"
    /\ ptree = Every(<<Every(<<Reshape, EvenOddDecomposition>>)>>)
    /\ Len(pin.args) = 2
    /\ Len(pin.args[1].args) = 2
    /\ pmid.args[2].args[1].args[2] = Ap("EvenOddDecomposition", 2, <<Ap("Reshape", 0, <<Atom(3)>>)>>)

-----------------------------------------------------------------------------
(* Claims about the bit manipulators *)

\* C10: for every window of length at least 3 and every bit,
\* WindowMedianBitManipulator.extract of the window that embed(window, bit)
\* left returns bit, windows of equal values included.
C10_WindowMedianRoundTrip == mphase = "extracted" => mout = mbit

\* C11: for every non-empty pair (even, odd) of equal length, both bits and
\* every alpha >= 0, EvenOddDifferentialBitManipulator.extract of the pair
\* that embed left returns the bit, and after embed even[i] - odd[i] is
\* 2 * s * alpha at every index, s = 1 for bit 1 and -1 for bit 0.
C11_EvenOddRoundTrip ==
    mkind = "EvenOddDifferential" =>
        /\ mphase \in {"embedded", "extracted"} =>
              \A i \in 1..Len(mwindow[1]) :
                  mwindow[1][i] - mwindow[2][i] = 2 * bit2sign(mbit = 1) * malpha
        /\ mphase = "extracted" => mout = mbit

\* C12: for every window of at least 3 values, whatever the order and sign
\* of its edge values, and both bits, MeanOverWindowEdgesBitManipulator.extract
\* of the window that embed left returns the bit (stated here for alpha > 0
\* only: with alpha = 0 embed writes the same window for both bits).
C12_EdgesRoundTrip ==
    (mkind = "MeanOverWindowEdges" /\ malpha > 0 /\ mphase = "extracted") => mout = mbit

\* the groups that yield the other bit on per-group extraction
FlippedGroups ==
    {k \in 1..Len(mwindow) : WindowMedianBitManipulatorExtract(mwindow[k]) # mbit}

\* C13: when a bit has been replicated into n >= 1 groups and at most
\* floor((n - 1) / 2) of the groups yield the flipped bit on extraction,
\* RobustnessEmphasis.extract writes the bit.
C13_MajorityTolerance ==
    (mkind = "RobustnessEmphasis" /\ mphase = "extracted"
       /\ Cardinality(FlippedGroups) <= (Len(mwindow) - 1) \div 2) => mout = mbit

\* one flipped copy among three, bit 0
C13_Witness ==
    /\ mkind = "RobustnessEmphasis" /\ mphase = "extracted"
    /\ Len(mwindow) = 3 /\ Cardinality(FlippedGroups) = 1 /\ mbit = 0 /\ mout = 0

-----------------------------------------------------------------------------
(* Claims about the watermark files *)

\* C14: N bits written with BitFileWriter, flushed and closed, then read with
\* BitFileReader under available() / read_bit(): the file holds floor(N / 8)
\* bytes, the bits read are the first bits written, in order, and
\* available() is true before each of the first 8 * floor(N / 8) reads and
\* false after them: the trailing N mod 8 bits are dropped.
C14_BitFileRoundTrip ==
    (fmode = "written" /\ fphase = "read") =>
        /\ Len(ffile) = Len(fin) \div 8
        /\ Len(fout) <= 8 * (Len(fin) \div 8)
        /\ fout = SubSeq(fin, 1, Len(fout))
        /\ favail = "true" => Len(fout) < 8 * (Len(fin) \div 8)
        /\ favail = "false" => Len(fout) = 8 * (Len(fin) \div 8)

\* nine bits written, the ninth a 1: eight read back, then available() is false
C14_Witness ==
    /\ fmode = "written" /\ fphase = "read" /\ Len(fin) = 9 /\ fin[9] = 1
    /\ fin[1] = 1 /\ fin[2] = 0 /\ Len(fout) = 8 /\ favail = "false"

\* C15: for a file of k bytes the reader yields exactly 8 * k bits, the i-th
\* being (byte[i div 8] >> (i mod 8)) & 1; available() is true before each of
\* these reads and false, for good, once the last has been read.
C15_BitFileFormat ==
    fphase = "read" =>
        /\ Len(fout) <= 8 * Len(ffile)
        /\ \A i \in 0..(Len(fout) - 1) :
              fout[i + 1] = (ffile[(i \div 8) + 1] \div Pow2(i % 8)) % 2
        /\ favail = "true" => Len(fout) < 8 * Len(ffile)
        /\ favail = "false" => Len(fout) = 8 * Len(ffile)

\* the two bytes 165, 1 have been read to the end
C15_Witness ==
    /\ fmode = "given" /\ fphase = "read" /\ ffile = <<165, 1>>
    /\ Len(fout) = 16 /\ favail = "false"

-----------------------------------------------------------------------------
(* Claims about the helpers *)

\* C16: shape2shape on positive dimensions returns old when new is None or
\* has both entries unset, old reversed for the swap sentinel, (h, w) when
\* both are given, and computes the unset one by floor division keeping the
\* aspect ratio: w = h * old_w div old_h, h = w * old_h div old_w; so
\* ((480,640), None) gives (480,640), ((480,640), (240,None)) gives (240,320)
\* and ((480,640), swap) gives (640,480).
C16_Shape2Shape ==
    sphase = "done" =>
        /\ (snew.kind = "none" \/ (snew.kind = "pair" /\ snew.h = 0 /\ snew.w = 0))
              => sres = sold
        /\ snew.kind = "swap" => sres = <<sold[2], sold[1]>>
        /\ (snew.kind = "pair" /\ snew.h > 0 /\ snew.w > 0) => sres = <<snew.h, snew.w>>
        /\ (snew.kind = "pair" /\ snew.h > 0 /\ snew.w = 0)
              => sres = <<snew.h, (snew.h * sold[2]) \div sold[1]>>
        /\ (snew.kind = "pair" /\ snew.h = 0 /\ snew.w > 0)
              => sres = <<(snew.w * sold[1]) \div sold[2], snew.w>>
        /\ (sold = <<480, 640>> /\ snew = NoShape) => sres = <<480, 640>>
        /\ (sold = <<480, 640>> /\ snew = PairShape(240, 0)) => sres = <<240, 320>>
        /\ (sold = <<480, 640>> /\ snew = SwapShape) => sres = <<640, 480>>

\* shape2shape((480, 640), (240, None)) has returned (240, 320)
C16_Witness ==
    sphase = "done" /\ sold = <<480, 640>> /\ snew = PairShape(240, 0) /\ sres = <<240, 320>>

-----------------------------------------------------------------------------
(* Claims about the scopes *)

\* C17: when the with-scope of the video tunnel has been left, by normal exit
\* or by exception, VideoTunnel.close() has released both the reader and the
\* writer, also when the release of one of them raised.
C17_TunnelReleasesBoth ==
    (cin.op = "embed" /\ cpc \in {"wmexit", "returned", "raised"} /\ ch.reader # "none") =>
        /\ ch.reader_release # "none"
        /\ ch.writer_release # "none"

\* C18: when the source video, the destination video or the watermark file
\* cannot be opened, the run ends with an error raised to the caller, no
\* statistics are returned, and nothing was opened twice.
C18_FatalOpenErrors ==
    (cpc \in {"returned", "raised"} /\ (~cin.src_ok \/ ~cin.wm_ok \/ (cin.op = "embed" /\ ~cin.dst_ok))) =>
        /\ cpc = "raised"
        /\ cres.stats = <<>>
        /\ ch.opens <= 2

C20_ReaderProtocol ==
    qpc # "off" =>
        \A i \in 1..Len(qcalls) :
            qcalls[i].op = "read_bit" =>
                /\ qcalls[i].ok
                /\ i > 1
                /\ qcalls[i - 1] = [op |-> "available", ok |-> TRUE]

C20_Witness ==
    /\ qpc = "done"
    /\ qin.method = "EvenOddDifferential"
    /\ qin.emphasis = "CapacityEmphasis"
    /\ qin.wmlen = 3
    /\ qst.current = 3
    /\ qst.frame = 2
    /\ Len(qcalls) > 6

CountOf(log, op) == Len(SelectSeq(log, LAMBDA c : c.op = op))

\* C21: for every Method with either Emphasis, the count embed() has
\* accumulated, and returns, is the number of read_bit() calls it made; the
\* count of extract() is the number of write_bit() calls it made and never
\* exceeds the quantity asked (it is 0 when the quantity is below 1).
C21_ExactBitCount ==
    qpc \in {"embed", "embedded", "extract", "extracted"} =>
        /\ qst.embedded = CountOf(qcalls.embed, "read_bit")
        /\ qst.embedded = qst.current
        /\ qst.extracted = CountOf(qcalls.extract, "write_bit")
        /\ qst.extracted <= Max2(qst.asked, 0)

C21_Witness ==
    /\ qpc = "extracted"
    /\ qin.method = "MeanOverWindowEdges"
    /\ qin.emphasis = "RobustnessEmphasis"
    /\ qin.groups = 3
    /\ qst.embedded = 2
    /\ qst.asked = 2
    /\ qst.extracted = 2

Visits(log) == SelectSeq(log, LAMBDA c : c.op = "group")

CompleteWindow(in, w) ==
    /\ w.hi - w.lo + 1 = WindowWidth(in)
    /\ w.lo >= 0
    /\ w.hi < in.size

DisjointWindows(v, w) ==
    (v # w) => (v.row # w.row \/ v.hi < w.lo \/ w.hi < v.lo)

\* C30: the groups extract visits for quantity q are, in order, the groups
\* embed visits for a stream of q bits, and the two counts are equal (so the
\* capacity of the domain is the same for both, q being more than the domain
\* holds); every window visited is complete and any two are disjoint.
C30_SameTraversal ==
    qpc \in {"embed", "embedded", "extract", "extracted"} =>
        /\ \A k \in 1..Len(Visits(qcalls.embed \o qcalls.extract)) :
              CompleteWindow(qin, Visits(qcalls.embed \o qcalls.extract)[k].window)
        /\ \A k \in 1..Len(Visits(qcalls.embed)) :
              \A l \in 1..Len(Visits(qcalls.embed)) :
                 DisjointWindows(Visits(qcalls.embed)[k].window,
                                 Visits(qcalls.embed)[l].window)
        /\ (qpc = "extracted" /\ qst.asked = qin.wmlen) =>
              /\ Visits(qcalls.extract) = Visits(qcalls.embed)
              /\ qst.extracted = qst.embedded

C30_Witness ==
    /\ qpc = "extracted"
    /\ qin.method = "EvenOddDifferential"
    /\ qin.emphasis = "CapacityEmphasis"
    /\ qin.groups = 2
    /\ qin.wmlen = 3
    /\ qst.asked = 3
    /\ qst.extracted = 3
    /\ Len(Visits(qcalls.extract)) = 3
    /\ Visits(qcalls.extract)[3].window.lo > Visits(qcalls.extract)[1].window.lo

\* the frames _stream2watermark has given to _frame2watermark: every frame
\* read but the one read last and not yet looked at
FramesExtracted == xpos - (IF xsuccess THEN 1 ELSE 0)

FrameEventsPaired(before, after, n) ==
    /\ CountEvents(events, before) = n
    /\ CountEvents(events, after) = n
    /\ \A i \in 1..Len(events) :
          events[i].ev = before => (i < Len(events) /\ events[i + 1].ev = after)

\* C22: in a run where nothing raises, between two iterations of the
\* streaming loop and after it, there are as many BEFORE_FRAME_EMBEDDING
\* notifications, each directly followed by an AFTER_FRAME_EMBEDDING, as
\* frames read and handled, also when the frames run out while bits remain;
\* and the same for BEFORE_/AFTER_FRAME_EXTRACTING and the frames extracted.
C22_FrameNotifications ==
    (thrown = NoExc /\ raised = NoExc) =>
        /\ pc \in {"stream", "copy", "finish", "done", "xloop", "xdone"} =>
              FrameEventsPaired("BEFORE_FRAME_EMBEDDING", "AFTER_FRAME_EMBEDDING", handled)
        /\ pc \in {"xloop", "xdone"} =>
              FrameEventsPaired("BEFORE_FRAME_EXTRACTING", "AFTER_FRAME_EXTRACTING",
                                FramesExtracted)

\* the votes of the positions strictly between the two edges
InteriorVotes(window) ==
    SumSeq([k \in 1..(Len(window) - 2) |->
               bit2sign(2 * window[k + 1] > window[1] + window[Len(window)])])

\* C23: what MeanOverWindowEdgesBitManipulator.extract returns for a window
\* is 1 exactly when the votes of the interior positions, the two edges left
\* out, sum to 0 or more.
C23_InteriorVotesOnly ==
    (mkind = "MeanOverWindowEdges" /\ mphase = "extracted") =>
        mout = (IF InteriorVotes(mwindow) >= 0 THEN 1 ELSE 0)

\* C24: a ConstantBitReader or RandomBitReader built with size n >= 0 and
\* read under the available() / read_bit() protocol: its size is n minus the
\* bits read and never below 0, available() returns true while fewer than n
\* bits have been read and false once n have (at once for n = 0); built
\* without a size, available() never returns false.
C24_BoundedGenerators ==
    (fmode \in Generators /\ fphase = "read") =>
        IF fw.sized
        THEN /\ fr.size = fw.size - Len(fout)
             /\ fr.size >= 0
             /\ (favail = "true" => Len(fout) < fw.size)
             /\ (favail = "false" => Len(fout) = fw.size)
        ELSE favail # "false"

C24_Witness ==
    /\ fmode = "RandomBitReader"
    /\ fw.sized /\ fw.size = 3
    /\ Len(fout) = 3
    /\ favail = "false"

\* the bits the next n read_bit() calls return, each made after an
\* available() that returned true; fewer when available() returns false
RECURSIVE Upcoming(_, _, _, _, _)
Upcoming(kind, r, file, stream, n) ==
    IF n = 0 \/ ~ReaderAvailableOf(kind, r, file).result THEN <<>>
    ELSE LET u == ReaderReadBitOf(kind, ReaderAvailableOf(kind, r, file).r, file, stream)
         IN  <<u.bit>> \o Upcoming(kind, u.r, file, stream, n - 1)

\* how far ahead to look: to the end of a file or an image, and as far as
\* a generator is read
Horizon ==
    CASE fmode \in Generators -> MaxReads - Len(fout)
      [] fmode = "BitFileReader" -> 8 * Len(ffile) + 1
      [] fmode = "BWImageReader" -> Len(fr.buffer) + 1

UpcomingBits == Upcoming(fmode, fr, ffile, fin, Horizon)

ReaderKinds == Generators \cup {"BitFileReader", "BWImageReader"}

AfterAvailable == ReaderAvailableOf(fmode, fr, ffile).r

\* C29: for every reader, in every state a caller can bring it to, a call
\* of available(), and a second one after it, leaves unchanged the bits the
\* following read_bit() calls return and how many there are before
\* available() returns false.
C29_AvailableConsumesNothing ==
    (fmode \in ReaderKinds /\ fphase = "read") =>
        /\ Upcoming(fmode, AfterAvailable, ffile, fin, Horizon) = UpcomingBits
        /\ Upcoming(fmode, ReaderAvailableOf(fmode, AfterAvailable, ffile).r,
                    ffile, fin, Horizon) = UpcomingBits

C29_Witness ==
    /\ fmode = "BitFileReader"
    /\ Len(ffile) = 2
    /\ Len(fout) = 8
    /\ favail = "true"
    /\ fr.pos = 2
    /\ Len(UpcomingBits) = 8

\* C25: every embed() call on a WatermarkEmbedder starts from zeroed
\* statistics (embedded 0, copied 0, full_watermark false, start_time unset)
\* and returns statistics whose embedded is the number of bits that call
\* read from its reader and whose copied is the number of frames that call
\* copied.
C25_StatisticsPerRun ==
    qpc = "ready" =>
        \A k \in 1..Len(qcalls) :
            /\ qcalls[k].start.embedded = 0
            /\ qcalls[k].start.copied = 0
            /\ ~qcalls[k].start.full_watermark
            /\ qcalls[k].start.start_time = 0
            /\ qcalls[k].ret.embedded = qcalls[k].read
            /\ qcalls[k].ret.copied = qcalls[k].copied

\* C26: for a 1-D sequence x of any length, even or odd, transform returns
\* the elements at the even indices and those at the odd indices
\* (0-based), restore of that pair does not raise, and it returns x.
C26_EvenOddDecompositionRoundTrip ==
    /\ sphase \in {"transformed", "restored", "raised"} =>
          /\ Len(snew[1]) + Len(snew[2]) = Len(sold)
          /\ \A i \in 1..Len(snew[1]) : snew[1][i] = sold[2 * i - 1]
          /\ \A i \in 1..Len(snew[2]) : snew[2][i] = sold[2 * i]
    /\ sphase # "raised"
    /\ sphase = "restored" => sres = sold

FrameOrCopyEvents ==
    {"BEFORE_FRAME_EMBEDDING", "AFTER_FRAME_EMBEDDING",
     "BEFORE_FRAME_COPY", "AFTER_FRAME_COPY"}

ExtractingEvents ==
    {"BEFORE_EXTRACTING", "BEFORE_FRAME_EXTRACTING", "AFTER_FRAME_EXTRACTING",
     "AFTER_EXTRACTING", "ERROR_EXTRACTING"}

\* the notifications of the extraction run, in order
ExtractionLog == SelectSeq(events, LAMBDA e : e.ev \in ExtractingEvents)

\* BEFORE_EXTRACTING is the first notification of the extraction run and
\* no frame-level notification follows AFTER_EXTRACTING
ExtractionEventOrder ==
    pc \in {"xloop", "xdone", "xraised"} =>
        /\ ExtractionLog # <<>>
        /\ ExtractionLog[1].ev = "BEFORE_EXTRACTING"
        /\ CountEvents(events, "BEFORE_EXTRACTING") = 1
        /\ \A i \in 1..Len(events) : \A j \in 1..Len(events) :
              (events[i].ev = "AFTER_EXTRACTING" /\ i < j)
                  => events[j].ev \notin {"BEFORE_FRAME_EXTRACTING",
                                         "AFTER_FRAME_EXTRACTING"}

\* C27: once an embedding run has started, BEFORE_EMBEDDING has been
\* notified exactly once and is the first notification, and no frame-level
\* or copy notification follows an AFTER_EMBEDDING; likewise
\* BEFORE_EXTRACTING is the first notification of the extraction run and
\* AFTER_EXTRACTING comes after its last frame-level notification.
C27_RunEventOrder ==
    /\ pc \notin {"off", "init"} =>
          /\ CountEvents(events, "BEFORE_EMBEDDING") = 1
          /\ events[1].ev = "BEFORE_EMBEDDING"
          /\ \A i \in 1..Len(events) : \A j \in 1..Len(events) :
                (events[i].ev = "AFTER_EMBEDDING" /\ i < j)
                    => events[j].ev \notin FrameOrCopyEvents
    /\ ExtractionEventOrder

\* C28: a notify(e) updates, once each, exactly the subscribers that have
\* subscribed to e and have not since unsubscribed from e, by name or with
\* no event at all; and the subscribers the Observable holds for each event
\* are those, so that an unsubscribe changes nothing else.
C28_Unsubscription ==
    cpc = "observing" =>
        /\ \A e \in ObsEvents : \A s \in ObsSubscribers :
              ([key |-> EventKey(e), sub |-> s] \in ch.members) <=> (<<s, e>> \in cin)
        /\ cres.calls = 1 =>
              \A s \in ObsSubscribers :
                 cres.updated[s] = (IF s \in cres.asked THEN 1 ELSE 0)

====
